---- MODULE Spec2Model ----
(***************************************************************************)
(* A model of the threadly worker runtime (ThreadlyRuntime, src/runtime.ts *)
(* and the worker-side message handler of src/worker-template.ts).         *)
(*                                                                         *)
(* The coordinator is single threaded: every action below is one           *)
(* run-to-completion step of the event loop (a call up to its first await, *)
(* a continuation after an await, a timer callback, a message event).      *)
(* Workers run concurrently and are reached only through message channels. *)
(***************************************************************************)
EXTENDS Integers, Sequences, FiniteSets, TLC

\* ------------------------------------------------------------------ bounds
MaxInstances == 3      \* instance identities (pool members and non-members)
MaxPoolSize == 2       \* largest poolSize passed to createWorkerPool
NumCallers == 3        \* concurrent callers of getWorkerFromPool
MaxCalls == 2          \* executeInWorker calls made in one run
MaxWorkers == 1        \* standalone createWorker calls made in one run
MaxShared == 3         \* createSharedWorker calls made in one run
MaxMsgs == 1           \* messages one handle posts / one shared worker emits
MaxDecls == 3          \* declarations of a source file without imports
MaxUserDecls == 1      \* declarations of a source file with an import
MaxArgs == 2           \* arguments of a call of a forwarding stub
MaxDepth == 2          \* nested calls a stub call is followed through
MaxClauses == 3        \* clauses after the marker of a comment
MaxTextLen == 2        \* characters of a path or of a function name
MaxStray == 1          \* responses to messages that are no execute request

Callers == 1..NumCallers
InstanceIds == 1..MaxInstances
NoInstance == 0
Calls == 1..MaxCalls
NoHandler == 0

\* keys and values of the context.workers map
RegIds == {"id1"}
NoEntry == 0
PoolEntry == -1

\* shared workers: the handles are numbered in creation order, and the group
\* object built by the constructor call of handle h is named h
Handles == 1..MaxShared
NoGroup == 0
Paths == {"a.js", "b.js"}
NoPath == ""
\* ThreadlyRuntime objects: registry is context.workers of ThisRuntime; the
\* Map sharedWorkers is a variable of the module, one for all of them
Runtimes == {1, 2}
ThisRuntime == 1
NoRuntime == 0
\* a shared handle h as a value of context.workers
SharedEntry(h) == -1 - h

\* JavaScript values that cross the channel, as strings
Undefined == "undefined"
NotThrown == "not thrown"
Results == {"42"}
ErrTexts == {"", "boom"}
NotFoundText == "Function not found or not callable"
FunctionNames == {"f", "missing"}

\* what a caller may post besides execute requests: an object of another
\* type, or null, of which no property can be read
NullData == "null"
OtherData == {"ping", NullData}
DestructureText == "Cannot destructure property 'type' of 'event.data' as it is null."

\* if (event.data.error): undefined and the empty string are falsy
Truthy(v) == v # Undefined /\ v # ""

VARIABLES
  nextId,      \* number of worker instances built so far (ids 1..nextId)
  terminated,  \* ids of the instances whose native worker was terminated
  poolPc,      \* "none" | "creating" | "ready" | "failed": createWorkerPool
  poolSize,    \* the poolSize argument of the createWorkerPool call
  loopI,       \* the loop variable i of createWorkerPool
  workers,     \* pool.workers
  available,   \* pool.available
  busy,        \* pool.busy
  maxSize,     \* pool.maxSize (0 until the pool object is built)
  pc,          \* per caller: "idle" | "waiting" | "holding"
  got,         \* per caller: the instance its getWorkerFromPool resolved with
  holders,     \* per instance: callers it was handed to since its last return
  registry,    \* context.workers: per id, an instance, PoolEntry or NoEntry
  onmessage,   \* per instance: the handler in messageListeners (0: none,
               \* k: the one-shot handler installed by call k)
  callSt,      \* per call: "none" | "pending" | "resolved" | "rejected"
  callInst,    \* per call: the instance it was issued on
  callOrig,    \* per call: originalOnMessage, what its handler restores
  callVal,     \* per call: the value it resolved with / the Error's message
  toWorker,    \* per instance: messages posted to it and not yet handled
  toMain,      \* per instance: responses posted and not yet delivered
  wpending,    \* per instance: promises of running functions, not settled
  thrown,      \* per call: message of the Error its function threw, or NotThrown
  posted,      \* per call: number of responses posted for its request (0:
               \* for the messages that are no request of a call)
  settledBy,   \* per call: the call whose request the settling response answers
  cut,         \* per call: it was in flight when its instance was terminated
  lastOp,      \* the last pool operation performed: <<name, caller, inst>>
  nextHandle,  \* number of createSharedWorker calls so far (handles 1..nextHandle)
  sharedWorkers, \* the module-level Map: per path, a group or NoGroup
  sharedOf,    \* per handle: the group its constructor closed over (shared)
  pathOf,      \* per handle: the workerPath its constructor closed over
  runtimeOf,   \* per handle: the ThreadlyRuntime whose createSharedWorker made it
  ports,       \* per group: shared.ports, as the handles whose port1 it holds
  underTerminated, \* groups on whose shared.worker terminate() was called
  portSt,      \* per handle, port1: "none" | "open" | "closing" | "closed"
  port2Sent,   \* per handle: messages the handle posted, queued at port2
  port2Bcast,  \* per handle: broadcast messages, queued at port2
  port1Queue,  \* per handle: messages posted on port2, queued for port1
  underInbox,  \* per group: messages posted to shared.worker
  relayed,     \* per handle: 'message' events its listener has handled
  emitted,     \* per group: messages its underlying worker has emitted
  source,      \* the source file handed to transformFile
  outcome,     \* what transform returned or threw for it
  written,     \* names of the functions whose worker module was written
  stubSt,      \* a call of a stub: "idle" | "running" | "resolved" | "rejected"
  stubName,    \* the stub that was called
  stubArgs,    \* the argument list of the innermost call in progress
  stubDepth,   \* number of calls the stub has made to itself
  dispatched,  \* number of calls made to a worker on behalf of the stub
  comment,     \* the comment text handed to the AnnotationParser
  parserPc,    \* "idle" | "start" | "parsed" | "tested" | "found"
  parsed,      \* what parseAnnotation(comment) returned
  hasAnn,      \* what hasAnnotation(comment) returned
  found,       \* what findThreadlyAnnotation returned for the node below it
  idArgs,      \* the (functionName, filePath) pairs handed to generateWorkerId
  ids,         \* what generateWorkerId returned for them, in order
  filePath,    \* this.filePath of the transformer: the path of the source file
  outputDir,   \* options.outputDir
  files        \* the paths compileWorkers has written a worker module to

instVars == <<nextId, terminated>>
poolVars == <<poolPc, poolSize, loopI, workers, available, busy, maxSize>>
callerVars == <<pc, got, holders>>
callVars == <<callSt, callInst, callOrig, callVal, settledBy, cut>>
chanVars == <<toWorker, toMain, wpending, thrown, posted>>
execVars == <<registry, onmessage, callVars, chanVars>>
groupVars == <<nextHandle, sharedWorkers, sharedOf, pathOf, runtimeOf, ports, underTerminated>>
portVars == <<portSt, port2Sent, port2Bcast, port1Queue, underInbox, relayed, emitted>>
sharedVars == <<groupVars, portVars>>
xformVars == <<source, outcome, written, stubSt, stubName, stubArgs, stubDepth, dispatched>>
parserVars == <<comment, parserPc, parsed, hasAnn, found>>
idVars == <<idArgs, ids>>
outVars == <<filePath, outputDir, files>>
buildVars == <<parserVars, idVars, outVars>>
vars == <<instVars, poolVars, callerVars, execVars, lastOp, sharedVars, xformVars, buildVars>>

\* ----------------------------------------------------------- array helpers
Range(s) == {s[i] : i \in 1..Len(s)}

\* Array.prototype.indexOf, 1-based; 0 stands for -1
IndexOf(s, x) ==
  IF x \in Range(s) THEN CHOOSE i \in 1..Len(s) : s[i] = x /\ \A j \in 1..(i-1) : s[j] # x
  ELSE 0

\* Array.prototype.splice(i, 1)
Splice(s, i) == [j \in 1..(Len(s) - 1) |-> IF j < i THEN s[j] ELSE s[j + 1]]

NoDup(s) == \A i, j \in 1..Len(s) : s[i] = s[j] => i = j

\* ------------------------------------------------------------ source files
\* A source file is its import statements followed by its top-level function
\* and arrow declarations. An import statement occupies one line. A
\* declaration that carries its own annotation comment has the comment on the
\* line above its first line; "lines" counts the lines from the first line of
\* a declaration to the line before the next comment or declaration. The
\* statements after the declarations (calls, expressions) count only for the
\* import bindings they mention ("tail").
FnNames == <<"f", "g", "h", "k", "m">>
DeclKinds == {"function", "arrow"}
DeclLines == {1, 4}

\* import d, { n } from "m"
ImportDN == [def |-> "d", named |-> {"n"}, module |-> "m"]
BindingNames == {"d", "n"}

DeclShapes(useSets) ==
  [kind : DeclKinds, async : BOOLEAN, annotated : BOOLEAN, lines : DeclLines, uses : useSets]

NamedDecl(i, sh) ==
  [name |-> FnNames[i], kind |-> sh.kind, async |-> sh.async,
   annotated |-> sh.annotated, lines |-> sh.lines, uses |-> sh.uses, others |-> {}]

ProgramsOf(imports, useSets, maxDecls) ==
  {[imports |-> imports, decls |-> [i \in DOMAIN shapes |-> NamedDecl(i, shapes[i])], tail |-> t] :
     shapes \in UNION {[1..m -> DeclShapes(useSets)] : m \in 0..maxDecls}, t \in useSets}

\* A variable statement may declare further names next to its arrow
\* function (const f = async () => ..., x = 1): "others" holds them.
OtherNames == {"x", "y"}
MaxStatements == 2

OthersOf(d) == IF d.kind = "arrow" THEN SUBSET OtherNames ELSE {{}}

StatementShapes ==
  UNION {{[shape |-> sh, others |-> o] : o \in OthersOf(sh)} : sh \in DeclShapes({{}})}

StatementPrograms(maxDecls) ==
  {[imports |-> <<>>,
    decls |-> [i \in DOMAIN sts |-> [NamedDecl(i, sts[i].shape) EXCEPT !.others = sts[i].others]],
    tail |-> {}] :
     sts \in UNION {[1..m -> StatementShapes] : m \in 0..maxDecls}}

EmptyProgram == [imports |-> <<>>, decls |-> <<>>, tail |-> {}]

\* what transform gave: nothing yet, a TransformResult, or a thrown Error
NoMain == [imports |-> <<>>, workerImports |-> <<>>, decls |-> <<>>]
NotRun == [type |-> "none", name |-> "", line |-> 0, configs |-> <<>>, main |-> NoMain]

\* --------------------------------------------------------- generateWorkerId
\* A text is a sequence of characters. Of the characters used here, "/",
\* "." and "_" are outside [a-zA-Z0-9].
PathChars == {"a", "/", ".", "_"}
NameChars == {"f", "_"}
Texts(chars, maxLen) == UNION {[1..n -> chars] : n \in 1..maxLen}
IsAlphanumeric(ch) == ch \notin {"/", ".", "_"}

\* (mutant of NormalizePath: the pattern without the g flag, which replaces
\* the first match only)
NormalizePathFirstOnly(path) ==
  [i \in DOMAIN path |->
     IF ~IsAlphanumeric(path[i]) /\ \A j \in 1..(i - 1) : IsAlphanumeric(path[j])
       THEN "_" ELSE path[i]]

\* filePath.replace(/[^a-zA-Z0-9]/g, "_")
NormalizePath(path) ==
  [i \in DOMAIN path |-> IF IsAlphanumeric(path[i]) THEN path[i] ELSE "_"]

\* `${normalizedPath}_${functionName}`
GenerateWorkerId(functionName, path) == NormalizePath(path) \o <<"_">> \o functionName

\* ------------------------------------------------------------ output paths
\* A directory is the sequence of its segments from the working directory,
\* a segment being a text; a worker file is a directory, an id and the
\* suffixes that follow the id.
OutputDirs == {<<>>, <<<<"s">>>>, <<<<"d">>>>}
FilePaths == {<<"a", ".", "t">>, <<"s", "/", "a", ".", "t">>}
DefaultFilePath == <<"a", ".", "t">>
DefaultOutputDir == <<<<"d">>>>
WorkerFile(dir, id, suffix) == [dir |-> dir, id |-> id, suffix |-> suffix]

\* the segments of a path, split at "/"
RECURSIVE SplitPath(_)
SplitPath(path) ==
  IF \A i \in DOMAIN path : path[i] # "/" THEN <<path>>
  ELSE LET k == CHOOSE i \in DOMAIN path : path[i] = "/" /\ \A j \in 1..(i - 1) : path[j] # "/"
       IN <<SubSeq(path, 1, k - 1)>> \o SplitPath(SubSeq(path, k + 1, Len(path)))

\* path.dirname
Dirname(path) == SubSeq(SplitPath(path), 1, Len(SplitPath(path)) - 1)

\* createWorkerConfig: path.join(outputDir, `${workerId}.worker.js`)
ConfigFilePath(dir, id) == WorkerFile(dir, id, <<".worker", ".js">>)

\* compileWorkers: path.join(path.join(outputDir, "workers"), `${id}.worker.ts`)
WorkerPath(dir, id) == WorkerFile(dir \o <<<<"workers">>>>, id, <<".worker", ".ts">>)

\* createWorkerReplacement: the specifier `./workers/${workerId}.worker`
ImportSpecifier(id) == WorkerFile(<<<<"workers">>>>, id, <<".worker">>)

\* the files a relative specifier without extension can name in a module of
\* directory dir: the specifier joined to dir, with one of the extensions a
\* resolver tries
ModuleExtensions == {".ts", ".js"}
ResolveImport(spec, dir) ==
  {WorkerFile(dir \o spec.dir, spec.id, spec.suffix \o <<ext>>) : ext \in ModuleExtensions}

\* ------------------------------------------------------------- transformer
\* findThreadlyAnnotation looks at the last 5 entries of the text before the
\* node split at "\n": the line the node starts on and the 4 lines above it.
AnnotationWindow == 5

RECURSIVE LinesBefore(_, _)
LinesBefore(src, i) ==
  IF i = 1 THEN Len(src.imports)
  ELSE LinesBefore(src, i - 1)
         + (IF src.decls[i - 1].annotated THEN 1 ELSE 0) + src.decls[i - 1].lines

\* getLineAndCharacterOfPosition(node.getStart()).line + 1
StartLine(src, i) == LinesBefore(src, i) + (IF src.decls[i].annotated THEN 1 ELSE 0) + 1

\* the lines that hold an annotation comment
AnnotationLines(src) ==
  {StartLine(src, j) - 1 : j \in {k \in DOMAIN src.decls : src.decls[k].annotated}}

\* (mutant of FindThreadlyAnnotation: only the line above the node counts)
FindOwnAnnotation(src, i) == StartLine(src, i) - 1 \in AnnotationLines(src)

FindThreadlyAnnotation(src, i) ==
  \E l \in AnnotationLines(src) :
    l <= StartLine(src, i) /\ l > StartLine(src, i) - AnnotationWindow

\* the declarations visitFunctionDeclaration / visitVariableStatement take
\* for annotated
Extracted(src) == {i \in DOMAIN src.decls : FindThreadlyAnnotation(src, i)}

\* validateAsyncFunction / validateAsyncArrowFunction throw for these
Offenders(src) == {i \in Extracted(src) : ~src.decls[i].async}

\* the local names an import statement binds
Bindings(st) == (IF st.def # "" THEN {st.def} ELSE {}) \cup st.named

ImportBindings(src) == UNION {Bindings(src.imports[j]) : j \in DOMAIN src.imports}

\* (mutant of CollectImportUsages: the identifiers of the import declarations
\* themselves are not visited)
CollectImportUsagesSkipImports(src) ==
  [worker |-> ImportBindings(src) \cap
                UNION {src.decls[i].uses : i \in Extracted(src)},
   nonWorker |-> ImportBindings(src) \cap
                (src.tail \cup UNION {src.decls[i].uses : i \in DOMAIN src.decls \ Extracted(src)})]

\* collectImportUsages: visit(sourceFile, false) walks every node; an
\* identifier that names a binding goes to the worker set inside a declaration
\* taken for annotated and to the non-worker set anywhere else, the names in
\* the import declarations included.
CollectImportUsages(src) ==
  [worker |-> ImportBindings(src) \cap
                UNION {src.decls[i].uses : i \in Extracted(src)},
   nonWorker |-> ImportBindings(src) \cup src.tail \cup
                UNION {src.decls[i].uses : i \in DOMAIN src.decls \ Extracted(src)}]

IsWorkerOnlyImport(src, b) ==
  b \in CollectImportUsages(src).worker /\ b \notin CollectImportUsages(src).nonWorker

\* visitNode on an import declaration; a dropped statement is NoImport
NoImport == [def |-> "", named |-> {}, module |-> ""]

VisitImport(src, st) ==
  IF st.def # "" /\ IsWorkerOnlyImport(src, st.def) THEN NoImport
  ELSE IF st.named # {}
    THEN LET remaining == {b \in st.named : ~IsWorkerOnlyImport(src, b)}
         IN IF remaining = {} THEN NoImport ELSE [st EXCEPT !.named = remaining]
    ELSE st

IsKept(st) == st # NoImport

\* extractImportsForFunction: the statements binding a name the declaration
\* mentions, as written in the source
ExtractImportsForFunction(src, i) ==
  {st \in Range(src.imports) : Bindings(st) \cap src.decls[i].uses # {}}

\* The source text of a node, token by token. The keyword of a variable
\* statement (const, let, var) belongs to the statement and to its
\* declaration list; a declarator starts at its name.
AsyncModifier(d) == IF d.async THEN <<"async">> ELSE <<>>

FunctionText(d) == AsyncModifier(d) \o <<"function", d.name, "(", ")", "{", "}">>

DeclaratorText(d) == <<d.name, "=">> \o AsyncModifier(d) \o <<"(", ")", "=>", "{", "}">>

\* (variant of ExtractFunctionCode: the text of the declaration list that
\* holds the declarator)
ExtractStatementCode(d) ==
  IF d.kind = "function" THEN FunctionText(d) ELSE <<"const">> \o DeclaratorText(d)

\* extractFunctionCode: text.substring(node.getStart(), node.getEnd()), the
\* node being the FunctionDeclaration or the VariableDeclaration (declarator)
\* that createWorkerConfig was given
ExtractFunctionCode(d) ==
  IF d.kind = "function" THEN FunctionText(d) ELSE DeclaratorText(d)

CreateWorkerConfig(src, i) ==
  [id |-> GenerateWorkerId(<<src.decls[i].name>>, filePath),
   filePath |-> ConfigFilePath(outputDir, GenerateWorkerId(<<src.decls[i].name>>, filePath)),
   functionName |-> src.decls[i].name, imports |-> ExtractImportsForFunction(src, i),
   sourceCode |-> ExtractFunctionCode(src.decls[i])]

\* generateWorkerCode: the comlink import, the import statements of the
\* config, the extracted source text, then expose(functionName)
GenerateWorkerCode(config) ==
  [imports |-> config.imports, body |-> config.sourceCode, exposed |-> config.functionName]

\* the names a text declares: the one after "function", "const", "let", "var"
DeclaredBy(text) ==
  {text[k + 1] : k \in {j \in 1..(Len(text) - 1) : text[j] \in {"function", "const", "let", "var"}}}

\* createWorkerReplacement: const NAME = async (args) => await NAME(...args)
CreateWorkerReplacement(d) ==
  [stub |-> TRUE, decl |-> d, params |-> <<"args">>, rest |-> FALSE, callee |-> d.name]

\* a declaration the visitor returns as it is
KeepNode(d) == [stub |-> FALSE, decl |-> d, params |-> <<>>, rest |-> FALSE, callee |-> ""]

\* the names a node of the rewritten file declares: the stub is a variable
\* statement with one declarator, the function name; a node returned as it
\* is declares what it declared
DeclaredNames(node) ==
  IF node.stub THEN {node.callee} ELSE {node.decl.name} \cup node.decl.others

RECURSIVE ConfigsFrom(_, _)
ConfigsFrom(src, i) ==
  IF i > Len(src.decls) THEN <<>>
  ELSE (IF i \in Extracted(src) THEN <<CreateWorkerConfig(src, i)>> ELSE <<>>)
         \o ConfigsFrom(src, i + 1)

\* SourceTransformer.transform: the three passes over the file. The first
\* declaration taken for annotated that is not async throws.
Transform(src) ==
  IF Offenders(src) # {}
    THEN LET i == CHOOSE j \in Offenders(src) : \A k \in Offenders(src) : j <= k
         IN [type |-> "error", name |-> src.decls[i].name, line |-> StartLine(src, i),
             configs |-> <<>>, main |-> NoMain]
    ELSE [type |-> "result", name |-> "", line |-> 0,
          configs |-> ConfigsFrom(src, 1),
          main |-> [imports |-> SelectSeq([j \in DOMAIN src.imports |-> VisitImport(src, src.imports[j])], IsKept),
                    workerImports |-> [j \in DOMAIN ConfigsFrom(src, 1) |-> ImportSpecifier(ConfigsFrom(src, 1)[j].id)],
                    decls |-> [i \in DOMAIN src.decls |->
                                 IF i \in Extracted(src) THEN CreateWorkerReplacement(src.decls[i])
                                 ELSE KeepNode(src.decls[i])]]]

\* Threadly.transformFile: transform, then compileWorkers writes one worker
\* module per WorkerConfig. A throw of transform leaves the function before
\* anything is written.
TransformFile ==
  /\ outcome.type = "none"
  /\ outcome' = Transform(source)
  /\ written' = IF Transform(source).type = "result"
                  THEN {Transform(source).configs[j].functionName : j \in DOMAIN Transform(source).configs}
                  ELSE {}
  /\ files' = IF Transform(source).type = "result"
                THEN files \cup {WorkerPath(outputDir, Transform(source).configs[j].id) : j \in DOMAIN Transform(source).configs}
                ELSE files
  /\ UNCHANGED <<source, stubSt, stubName, stubArgs, stubDepth, dispatched>>
  /\ UNCHANGED <<filePath, outputDir, parserVars, idVars>>
  /\ UNCHANGED <<instVars, poolVars, callerVars, execVars, lastOp, sharedVars>>

\* -------------------------------------------------------- AnnotationParser
\* A comment text, token by token: what stands before the marker ("lead":
\* the opener "/*" followed by one space, by a line break, by a second "*"
\* or by other text), the marker "@threadly" or not, the clauses that follow
\* it, and the closer "*/" or not. Two clauses are separated by one space; a
\* line break between clauses is the clause Newline.
Leads == {"/* ", "/*\n", "/** ", "/* x "}
SizeTexts == {<<"0">>, <<"2">>, <<"0", "1">>, <<"x">>}
PoolClause(size) == [word |-> "pool", size |-> size]
Word(w) == [word |-> w, size |-> <<>>]
Newline == Word("\n")
ClauseTokens == {PoolClause(sz) : sz \in SizeTexts} \cup {Word("shared"), Word("foo"), Newline}
ClauseLists == UNION {[1..n -> ClauseTokens] : n \in 0..MaxClauses}
Comments == [lead : Leads, marker : BOOLEAN, clauses : ClauseLists, closed : BOOLEAN]
NoComment == [lead |-> "", marker |-> FALSE, clauses |-> <<>>, closed |-> FALSE]

\* ThreadlyAnnotation | null; an absent poolSize is NoPoolSize, an absent
\* shared is FALSE
NoPoolSize == -1
Null == [type |-> "null", poolSize |-> NoPoolSize, shared |-> FALSE]
Annotation(type, size, shared) == [type |-> type, poolSize |-> size, shared |-> shared]

\* \s* : the whitespace a regular expression skips, line breaks included
RECURSIVE SkipLeading(_)
SkipLeading(cl) ==
  IF cl # <<>> /\ Head(cl) = Newline THEN SkipLeading(Tail(cl)) ELSE cl

RECURSIVE SkipTrailing(_)
SkipTrailing(cl) ==
  IF cl # <<>> /\ cl[Len(cl)] = Newline THEN SkipTrailing(SubSeq(cl, 1, Len(cl) - 1)) ELSE cl

\* match[1] of ANNOTATION_REGEX: what (.*?) captures between the two \s*
Captured(c) == SkipTrailing(SkipLeading(c.clauses))

\* (mutant of AnnotationRegex: the dot matches line breaks too)
AnnotationRegexDotAll(c) ==
  /\ c.lead \in {"/* ", "/*\n"}
  /\ c.marker
  /\ c.closed

\* ANNOTATION_REGEX = /\/\*\s*@threadly\s*(.*?)\s*\*\//: the opener, only
\* whitespace, the marker, and up to the closer nothing that the dot does
\* not match, a line break that is
AnnotationRegex(c) ==
  /\ c.lead \in {"/* ", "/*\n"}
  /\ c.marker
  /\ c.closed
  /\ \A i \in DOMAIN Captured(c) : Captured(c)[i] # Newline

IsDigit(ch) == ch \in {"0", "1", "2"}
DigitValue(ch) == CASE ch = "0" -> 0 [] ch = "1" -> 1 [] ch = "2" -> 2

\* parseInt(text, 10) of a text of digits
RECURSIVE ParseInt(_)
ParseInt(digits) ==
  IF Len(digits) = 1 THEN DigitValue(digits[1])
  ELSE 10 * ParseInt(SubSeq(digits, 1, Len(digits) - 1)) + DigitValue(digits[Len(digits)])

\* /pool\s*\(\s*size\s*=\s*(\d+)\s*\)/ on one clause
PoolMatch(tok) ==
  tok.word = "pool" /\ tok.size # <<>> /\ \A i \in DOMAIN tok.size : IsDigit(tok.size[i])

\* (mutant of PoolMatches: a size must not be zero)
PoolMatchesPositive(config) ==
  {i \in DOMAIN config : PoolMatch(config[i]) /\ ParseInt(config[i].size) > 0}

\* the places of config where the pool pattern matches; match() gives the first
PoolMatches(config) == {i \in DOMAIN config : PoolMatch(config[i])}

\* config.includes("shared")
IncludesShared(config) == \E i \in DOMAIN config : config[i].word = "shared"

\* parseAnnotation, lines 21-39: the annotation built from a non-empty config
Classify(config) ==
  LET pm == PoolMatches(config)
      first == CHOOSE i \in pm : \A j \in pm : i <= j
  IN Annotation(IF pm # {} THEN "pool" ELSE IF IncludesShared(config) THEN "shared" ELSE "basic",
                IF pm # {} THEN ParseInt(config[first].size) ELSE NoPoolSize,
                IncludesShared(config))

ParseAnnotation(c) ==
  IF ~AnnotationRegex(c) THEN Null
  ELSE IF Captured(c) = <<>> THEN Annotation("basic", NoPoolSize, FALSE)
  ELSE Classify(Captured(c))

\* (mutant of HasAnnotation: the marker anywhere in a closed comment)
HasAnnotationAnywhere(c) == c.marker /\ c.closed

HasAnnotation(c) == AnnotationRegex(c)

\* the text of the comment up to its first line break
RECURSIVE FirstLineClauses(_)
FirstLineClauses(cl) ==
  IF cl = <<>> \/ Head(cl) = Newline THEN <<>>
  ELSE <<Head(cl)>> \o FirstLineClauses(Tail(cl))

FirstLine(c) ==
  IF c.lead = "/*\n" THEN [c EXCEPT !.lead = "/*", !.marker = FALSE, !.clauses = <<>>, !.closed = FALSE]
  ELSE [c EXCEPT !.clauses = FirstLineClauses(c.clauses),
                 !.closed = c.closed /\ FirstLineClauses(c.clauses) = c.clauses]

\* the line breaks between the opener of the comment and the node that
\* starts on the line below its last line
LineBreaks(c) ==
  Cardinality({i \in DOMAIN c.clauses : c.clauses[i] = Newline})
    + (IF c.lead = "/*\n" THEN 1 ELSE 0) + 1

\* findThreadlyAnnotation for a node under the comment c: the nearest of the
\* last 5 lines that includes "/* @threadly" goes to parseAnnotation. Only
\* the first line of a comment can include it.
FindThreadlyAnnotationUnder(c) ==
  IF FirstLine(c).lead = "/* " /\ FirstLine(c).marker /\ LineBreaks(c) < AnnotationWindow
    THEN ParseAnnotation(FirstLine(c))
    ELSE Null

InitParser ==
  /\ comment = NoComment
  /\ parserPc = "idle"
  /\ parsed = Null
  /\ hasAnn = FALSE
  /\ found = Null

\* generateWorkerId was handed nothing
InitIds ==
  /\ idArgs = <<>>
  /\ ids = <<>>

\* A transformer for the file a.t that writes under the directory d
InitOut ==
  /\ filePath = DefaultFilePath
  /\ outputDir = DefaultOutputDir
  /\ files = {}

InitBuild == InitParser /\ InitIds /\ InitOut

\* generateWorkerId applied to the next pair
GenerateWorkerIdCall ==
  /\ Len(ids) < Len(idArgs)
  /\ ids' = Append(ids, GenerateWorkerId(idArgs[Len(ids) + 1].functionName, idArgs[Len(ids) + 1].filePath))
  /\ UNCHANGED <<idArgs, parserVars, outVars>>
  /\ UNCHANGED <<instVars, poolVars, callerVars, execVars, lastOp, sharedVars, xformVars>>

ParseAnnotationCall ==
  /\ parserPc = "start"
  /\ parserPc' = "parsed"
  /\ parsed' = ParseAnnotation(comment)
  /\ UNCHANGED <<comment, hasAnn, found, idVars, outVars>>
  /\ UNCHANGED <<instVars, poolVars, callerVars, execVars, lastOp, sharedVars, xformVars>>

HasAnnotationCall ==
  /\ parserPc = "parsed"
  /\ parserPc' = "tested"
  /\ hasAnn' = HasAnnotation(comment)
  /\ UNCHANGED <<comment, parsed, found, idVars, outVars>>
  /\ UNCHANGED <<instVars, poolVars, callerVars, execVars, lastOp, sharedVars, xformVars>>

FindThreadlyAnnotationCall ==
  /\ parserPc = "tested"
  /\ parserPc' = "found"
  /\ found' = FindThreadlyAnnotationUnder(comment)
  /\ UNCHANGED <<comment, parsed, hasAnn, idVars, outVars>>
  /\ UNCHANGED <<instVars, poolVars, callerVars, execVars, lastOp, sharedVars, xformVars>>

\* ------------------------------------------------------------------- Init
\* A new ThreadlyRuntime: no worker, no pool, empty registry, no shared group.
InitRuntime ==
  /\ nextId = 0
  /\ terminated = {}
  /\ poolPc = "none"
  /\ poolSize = 0
  /\ loopI = 0
  /\ workers = <<>>
  /\ available = <<>>
  /\ busy = <<>>
  /\ maxSize = 0
  /\ pc = [c \in Callers |-> "idle"]
  /\ got = [c \in Callers |-> NoInstance]
  /\ holders = [w \in InstanceIds |-> {}]
  /\ registry = [id \in RegIds |-> NoEntry]
  /\ onmessage = [w \in InstanceIds |-> NoHandler]
  /\ callSt = [k \in Calls |-> "none"]
  /\ callInst = [k \in Calls |-> NoInstance]
  /\ callOrig = [k \in Calls |-> NoHandler]
  /\ callVal = [k \in Calls |-> Undefined]
  /\ settledBy = [k \in Calls |-> 0]
  /\ cut = [k \in Calls |-> FALSE]
  /\ toWorker = [w \in InstanceIds |-> <<>>]
  /\ toMain = [w \in InstanceIds |-> <<>>]
  /\ wpending = [w \in InstanceIds |-> {}]
  /\ thrown = [k \in Calls |-> NotThrown]
  /\ posted = [k \in 0..MaxCalls |-> 0]
  /\ lastOp = <<"init", 0, NoInstance>>
  /\ nextHandle = 0
  /\ sharedWorkers = [p \in Paths |-> NoGroup]
  /\ sharedOf = [h \in Handles |-> NoGroup]
  /\ pathOf = [h \in Handles |-> NoPath]
  /\ runtimeOf = [h \in Handles |-> NoRuntime]
  /\ ports = [g \in Handles |-> {}]
  /\ underTerminated = {}
  /\ portSt = [h \in Handles |-> "none"]
  /\ port2Sent = [h \in Handles |-> 0]
  /\ port2Bcast = [h \in Handles |-> 0]
  /\ port1Queue = [h \in Handles |-> 0]
  /\ underInbox = [g \in Handles |-> 0]
  /\ relayed = [h \in Handles |-> 0]
  /\ emitted = [g \in Handles |-> 0]

\* No call of a forwarding stub is in progress.
InitStub ==
  /\ stubSt = "idle"
  /\ stubName = ""
  /\ stubArgs = <<>>
  /\ stubDepth = 0
  /\ dispatched = 0

\* The runtime specifications transform no file.
Init ==
  /\ InitRuntime
  /\ source = EmptyProgram
  /\ outcome = NotRun
  /\ written = {}
  /\ InitStub
  /\ InitBuild

\* ------------------------------------------------------------ createWorker
\* A standalone createWorker call: builds one new instance (new Worker(path))
\* and wraps it in the Node handle, with no listener installed.
CreateWorker ==
  /\ nextId < MaxWorkers
  /\ nextId' = nextId + 1
  /\ lastOp' = <<"createWorker", 0, nextId + 1>>
  /\ UNCHANGED <<terminated, poolVars, callerVars, execVars, sharedVars, xformVars, buildVars>>

\* -------------------------------------------------------- createWorkerPool
\* The call itself: the three arrays are allocated and the loop starts.
CreateWorkerPoolCall(size) ==
  /\ poolPc = "none"
  /\ poolPc' = "creating"
  /\ poolSize' = size
  /\ loopI' = 0
  /\ workers' = <<>>
  /\ available' = <<>>
  /\ busy' = <<>>
  /\ lastOp' = <<"createWorkerPool", 0, NoInstance>>
  /\ UNCHANGED <<instVars, maxSize, callerVars, execVars, sharedVars, xformVars, buildVars>>

\* (mutant of PoolPush: the new instance is not seeded into available)
PoolPushWorkersOnly(w) ==
  /\ workers' = Append(workers, w)
  /\ available' = available

\* One loop iteration whose awaited createWorker resolves:
\* workers.push(worker); available.push(worker);
PoolPush(w) ==
  /\ workers' = Append(workers, w)
  /\ available' = Append(available, w)

CreateWorkerPoolStep ==
  /\ poolPc = "creating"
  /\ loopI < poolSize
  /\ nextId < MaxInstances
  /\ nextId' = nextId + 1
  /\ PoolPush(nextId + 1)
  /\ loopI' = loopI + 1
  /\ lastOp' = <<"poolStep", 0, nextId + 1>>
  /\ UNCHANGED <<terminated, poolPc, poolSize, busy, maxSize, callerVars, execVars, sharedVars, xformVars, buildVars>>

\* One loop iteration whose awaited createWorker rejects (new Worker throws):
\* the rejection leaves the async function; nothing terminates the instances
\* pushed by the earlier iterations.
CreateWorkerPoolFail ==
  /\ poolPc = "creating"
  /\ loopI < poolSize
  /\ poolPc' = "failed"
  /\ lastOp' = <<"poolFail", 0, NoInstance>>
  /\ UNCHANGED <<instVars, poolSize, loopI, workers, available, busy, maxSize, callerVars, execVars, sharedVars, xformVars, buildVars>>

\* The loop is over: the pool object is built and returned.
CreateWorkerPoolReturn ==
  /\ poolPc = "creating"
  /\ ~(loopI < poolSize)
  /\ maxSize' = poolSize
  /\ poolPc' = "ready"
  /\ lastOp' = <<"poolReturn", 0, NoInstance>>
  /\ UNCHANGED <<instVars, poolSize, loopI, workers, available, busy, callerVars, execVars, sharedVars, xformVars, buildVars>>

\* ------------------------------------------------------- getWorkerFromPool
\* (mutant of TakeWorker: the head is read but not shifted out of available)
TakeWorkerNoShift(c) ==
  /\ available' = available
  /\ busy' = Append(busy, Head(available))
  /\ got' = [got EXCEPT ![c] = Head(available)]
  /\ pc' = [pc EXCEPT ![c] = "holding"]
  /\ holders' = [holders EXCEPT ![Head(available)] = @ \cup {c}]

\* (mutant of TakeWorker: pop() instead of shift(): the last one is taken)
TakeWorkerPop(c) ==
  /\ available' = SubSeq(available, 1, Len(available) - 1)
  /\ busy' = Append(busy, available[Len(available)])
  /\ got' = [got EXCEPT ![c] = available[Len(available)]]
  /\ pc' = [pc EXCEPT ![c] = "holding"]
  /\ holders' = [holders EXCEPT ![available[Len(available)]] = @ \cup {c}]

\* const worker = pool.available.shift()!; pool.busy.push(worker);
TakeWorker(c) ==
  /\ available' = Tail(available)
  /\ busy' = Append(busy, Head(available))
  /\ got' = [got EXCEPT ![c] = Head(available)]
  /\ pc' = [pc EXCEPT ![c] = "holding"]
  /\ holders' = [holders EXCEPT ![Head(available)] = @ \cup {c}]

\* The call: with an empty available list the promise executor runs
\* checkAvailable once, finds nothing and arms the 10 ms timer.
GetWorkerFromPool(c) ==
  /\ poolPc = "ready"
  /\ pc[c] = "idle"
  /\ IF Len(available) = 0
       THEN /\ pc' = [pc EXCEPT ![c] = "waiting"]
            /\ lastOp' = <<"getSuspend", c, NoInstance>>
            /\ UNCHANGED <<available, busy, got, holders>>
       ELSE /\ TakeWorker(c)
            /\ lastOp' = <<"get", c, Head(available)>>
  /\ UNCHANGED <<instVars, poolPc, poolSize, loopI, workers, maxSize, execVars, sharedVars, xformVars, buildVars>>

\* (mutant of CheckAvailable: the timer callback re-arms without looking)
CheckAvailableNeverTakes(c) ==
  /\ pc[c] = "waiting"
  /\ lastOp' = <<"poll", c, NoInstance>>
  /\ UNCHANGED <<available, busy, got, pc, holders>>
  /\ UNCHANGED <<instVars, poolPc, poolSize, loopI, workers, maxSize, execVars, sharedVars, xformVars, buildVars>>

\* The timer callback checkAvailable of a suspended call.
CheckAvailable(c) ==
  /\ pc[c] = "waiting"
  /\ IF Len(available) > 0
       THEN /\ TakeWorker(c)
            /\ lastOp' = <<"resume", c, Head(available)>>
       ELSE /\ lastOp' = <<"poll", c, NoInstance>>
            /\ UNCHANGED <<available, busy, got, pc, holders>>
  /\ UNCHANGED <<instVars, poolPc, poolSize, loopI, workers, maxSize, execVars, sharedVars, xformVars, buildVars>>

\* ------------------------------------------------------ returnWorkerToPool
\* (mutant of PutBack: the instance is pushed without the busyIndex test)
PutBackNoCheck(w) ==
  /\ busy' = IF IndexOf(busy, w) # 0 THEN Splice(busy, IndexOf(busy, w)) ELSE busy
  /\ available' = Append(available, w)

\* const busyIndex = pool.busy.indexOf(worker); if (busyIndex !== -1) { ... }
PutBack(w) ==
  IF IndexOf(busy, w) # 0
    THEN /\ busy' = Splice(busy, IndexOf(busy, w))
         /\ available' = Append(available, w)
    ELSE UNCHANGED <<available, busy>>

\* Any caller may pass any instance, a member of the pool or not (the ids
\* above nextId are instances that were not built for this pool); a caller
\* that passes the instance it holds is done with it.
ReturnWorkerToPool(c, w) ==
  /\ poolPc = "ready"
  /\ PutBack(w)
  /\ holders' = [holders EXCEPT ![w] = IF IndexOf(busy, w) # 0 THEN {} ELSE @]
  /\ pc' = [pc EXCEPT ![c] = IF pc[c] = "holding" /\ got[c] = w THEN "idle" ELSE @]
  /\ got' = [got EXCEPT ![c] = IF pc[c] = "holding" /\ got[c] = w THEN NoInstance ELSE @]
  /\ lastOp' = <<"return", 0, w>>
  /\ UNCHANGED <<instVars, poolPc, poolSize, loopI, workers, maxSize, execVars, sharedVars, xformVars, buildVars>>


\* ------------------------------------------------- registry: context.workers
\* registerWorker(id, worker): Map.set replaces what id named before.
RegisterWorker(id, w) ==
  /\ w \in 1..nextId
  /\ registry' = [registry EXCEPT ![id] = w]
  /\ UNCHANGED <<instVars, poolVars, callerVars, sharedVars, xformVars, buildVars, lastOp, onmessage, callVars, chanVars>>

\* registerWorker(id, pool)
RegisterPool(id) ==
  /\ poolPc = "ready"
  /\ registry' = [registry EXCEPT ![id] = PoolEntry]
  /\ UNCHANGED <<instVars, poolVars, callerVars, sharedVars, xformVars, buildVars, lastOp, onmessage, callVars, chanVars>>

\* unregisterWorker(id)
UnregisterWorker(id) ==
  /\ registry[id] # NoEntry
  /\ registry' = [registry EXCEPT ![id] = NoEntry]
  /\ UNCHANGED <<instVars, poolVars, callerVars, sharedVars, xformVars, buildVars, lastOp, onmessage, callVars, chanVars>>

\* ---------------------------------------------------------------- terminate
\* (mutant of TerminateInstances: messageListeners is not emptied)
TerminateInstancesKeepListeners(S) ==
  /\ onmessage' = onmessage
  /\ terminated' = terminated \cup S
  /\ toWorker' = [w \in InstanceIds |-> IF w \in S THEN <<>> ELSE toWorker[w]]
  /\ wpending' = [w \in InstanceIds |-> IF w \in S THEN {} ELSE wpending[w]]
  /\ cut' = [k \in Calls |-> cut[k] \/ (callSt[k] = "pending" /\ callInst[k] \in S)]

\* The Node handle's terminate() on every instance of S:
\* messageListeners.length = 0; errorListeners.length = 0; worker.terminate()
\* The worker thread stops: what it had not handled or settled is lost, what
\* it had already posted may still arrive.
TerminateInstances(S) ==
  /\ onmessage' = [w \in InstanceIds |-> IF w \in S THEN NoHandler ELSE onmessage[w]]
  /\ terminated' = terminated \cup S
  /\ toWorker' = [w \in InstanceIds |-> IF w \in S THEN <<>> ELSE toWorker[w]]
  /\ wpending' = [w \in InstanceIds |-> IF w \in S THEN {} ELSE wpending[w]]
  /\ cut' = [k \in Calls |-> cut[k] \/ (callSt[k] = "pending" /\ callInst[k] \in S)]

\* A caller terminates one instance directly.
Terminate(w) ==
  /\ w \in 1..nextId
  /\ TerminateInstances({w})
  /\ UNCHANGED <<nextId, poolVars, callerVars, sharedVars, xformVars, buildVars, lastOp, registry, toMain, thrown, posted>>
  /\ UNCHANGED <<callSt, callInst, callOrig, callVal, settledBy>>

\* ----------------------------------------------------------- shared workers
\* new NodeSharedWorker(workerPath, {}) and the handle createSharedWorker
\* wraps around its port. The constructor looks the path up in sharedWorkers
\* and builds the group (new Worker) only when the path has no entry; it
\* always makes a MessageChannel and adds port1 to shared.ports. port2 of
\* the channel is kept by nobody.
CreateSharedWorkerBy(r, p) ==
  /\ nextHandle < MaxShared
  /\ LET h == nextHandle + 1
         g == IF sharedWorkers[p] # NoGroup THEN sharedWorkers[p] ELSE h
     IN /\ nextHandle' = h
        /\ sharedWorkers' = [sharedWorkers EXCEPT ![p] = g]
        /\ sharedOf' = [sharedOf EXCEPT ![h] = g]
        /\ pathOf' = [pathOf EXCEPT ![h] = p]
        /\ runtimeOf' = [runtimeOf EXCEPT ![h] = r]
        /\ ports' = [ports EXCEPT ![g] = @ \cup {h}]
        /\ portSt' = [portSt EXCEPT ![h] = "open"]
  /\ UNCHANGED <<underTerminated, port2Sent, port2Bcast, port1Queue, underInbox, relayed, emitted>>
  /\ UNCHANGED <<instVars, poolVars, callerVars, execVars, lastOp, xformVars, buildVars>>

\* createSharedWorker called on the runtime whose registry is modelled
CreateSharedWorker(p) == CreateSharedWorkerBy(ThisRuntime, p)

\* port.close() on the port1 of every handle of S: an open port stops taking
\* messages at once and what is queued in its channel is discarded; its
\* 'close' event is emitted later, from the event loop.
ClosePorts(S) ==
  /\ portSt' = [h \in Handles |-> IF h \in S /\ portSt[h] = "open" THEN "closing" ELSE portSt[h]]
  /\ port2Sent' = [h \in Handles |-> IF h \in S THEN 0 ELSE port2Sent[h]]
  /\ port2Bcast' = [h \in Handles |-> IF h \in S THEN 0 ELSE port2Bcast[h]]

\* The shared handle's terminate(): sharedWorker.port.close()
SharedTerminate(h) ==
  /\ h \in 1..nextHandle
  /\ ClosePorts({h})
  /\ UNCHANGED <<groupVars, port1Queue, underInbox, relayed, emitted>>
  /\ UNCHANGED <<instVars, poolVars, callerVars, execVars, lastOp, xformVars, buildVars>>

\* The shared handle's postMessage(data): sharedWorker.port.postMessage(data).
\* A message posted on port1 of a MessageChannel is queued for port2.
SharedPostMessage(h) ==
  /\ h \in 1..nextHandle
  /\ port2Sent[h] < MaxMsgs
  /\ port2Sent' = [port2Sent EXCEPT ![h] = IF portSt[h] = "open" THEN @ + 1 ELSE @]
  /\ UNCHANGED <<groupVars, portSt, port2Bcast, port1Queue, underInbox, relayed, emitted>>
  /\ UNCHANGED <<instVars, poolVars, callerVars, execVars, lastOp, xformVars, buildVars>>

\* The underlying worker of group g posts a message to its parent:
\* worker.on("message") posts it on every port1 of shared.ports.
UnderlyingEmit(g) ==
  /\ g \in 1..nextHandle
  /\ sharedOf[g] = g
  /\ g \notin underTerminated
  /\ emitted[g] < MaxMsgs
  /\ emitted' = [emitted EXCEPT ![g] = @ + 1]
  /\ port2Bcast' = [h \in Handles |->
       IF h \in ports[g] /\ portSt[h] = "open" THEN port2Bcast[h] + 1 ELSE port2Bcast[h]]
  /\ UNCHANGED <<groupVars, portSt, port2Sent, port1Queue, underInbox, relayed>>
  /\ UNCHANGED <<instVars, poolVars, callerVars, execVars, lastOp, xformVars, buildVars>>

\* port1.on("message") has two listeners, run in the order they were added:
\* the constructor's, shared.worker.postMessage(data), and the handle's,
\* which calls worker.onmessage.
Port1Message(h) ==
  /\ port1Queue' = [port1Queue EXCEPT ![h] = @ - 1]
  /\ underInbox' = [underInbox EXCEPT ![sharedOf[h]] = @ + 1]
  /\ relayed' = [relayed EXCEPT ![h] = @ + 1]
  /\ UNCHANGED <<groupVars, portSt>>

\* (mutant of Port1Close: the entry of the path stays in sharedWorkers)
Port1CloseKeepEntry(h) ==
  LET g == sharedOf[h]
      rest == ports[g] \ {h}
  IN /\ portSt' = [portSt EXCEPT ![h] = "closed"]
     /\ ports' = [ports EXCEPT ![g] = rest]
     /\ underTerminated' = IF rest = {} THEN underTerminated \cup {g} ELSE underTerminated
     /\ UNCHANGED <<sharedWorkers, nextHandle, sharedOf, pathOf, runtimeOf, port1Queue, underInbox, relayed>>

\* port1.on("close"): the port leaves the group the constructor closed over;
\* when that group has no port left its worker is terminated and the entry
\* of the path is deleted from sharedWorkers, whatever group it names.
Port1Close(h) ==
  LET g == sharedOf[h]
      rest == ports[g] \ {h}
  IN /\ portSt' = [portSt EXCEPT ![h] = "closed"]
     /\ ports' = [ports EXCEPT ![g] = rest]
     /\ IF rest = {}
          THEN /\ underTerminated' = underTerminated \cup {g}
               /\ sharedWorkers' = [sharedWorkers EXCEPT ![pathOf[h]] = NoGroup]
          ELSE UNCHANGED <<underTerminated, sharedWorkers>>
     /\ UNCHANGED <<nextHandle, sharedOf, pathOf, runtimeOf, port1Queue, underInbox, relayed>>

\* One turn of the event loop for the port1 of handle h: a queued 'message'
\* event if there is one, its 'close' event otherwise.
PortEvent(h) ==
  /\ h \in 1..nextHandle
  /\ port1Queue[h] > 0 \/ portSt[h] = "closing"
  /\ IF port1Queue[h] > 0 /\ portSt[h] = "open" THEN Port1Message(h) ELSE Port1Close(h)
  /\ UNCHANGED <<port2Sent, port2Bcast, emitted>>
  /\ UNCHANGED <<instVars, poolVars, callerVars, execVars, lastOp, xformVars, buildVars>>

\* cleanupSharedWorkers(): every port of every group of the Map is closed,
\* every group's worker is terminated, and the Map is cleared. also closes the
\* ports of the handles of S, whose terminate() ran before.
CleanupSharedWorkers(S) ==
  LET groups == {sharedWorkers[p] : p \in {q \in Paths : sharedWorkers[q] # NoGroup}}
  IN /\ ClosePorts(S \cup UNION {ports[g] : g \in groups})
     /\ underTerminated' = underTerminated \cup groups
     /\ sharedWorkers' = [p \in Paths |-> NoGroup]

\* registerWorker(id, sharedHandle)
RegisterShared(id, h) ==
  /\ h \in 1..nextHandle
  /\ registry' = [registry EXCEPT ![id] = SharedEntry(h)]
  /\ UNCHANGED <<instVars, poolVars, callerVars, sharedVars, xformVars, buildVars, lastOp, onmessage, callVars, chanVars>>

\* The shared handles terminateAll reaches through the registry.
RegisteredShared == {h \in Handles : \E id \in RegIds : registry[id] = SharedEntry(h)}

\* The instances terminateAll reaches: every registered plain instance and
\* every member of a registered pool.
Registered ==
  {registry[id] : id \in {i \in RegIds : registry[i] \in InstanceIds}}
    \cup (IF \E id \in RegIds : registry[id] = PoolEntry THEN Range(workers) ELSE {})

TerminateAll ==
  /\ TerminateInstances(Registered)
  /\ registry' = [id \in RegIds |-> NoEntry]
  /\ CleanupSharedWorkers(RegisteredShared)
  /\ UNCHANGED <<nextHandle, sharedOf, pathOf, runtimeOf, ports, port1Queue, underInbox, relayed, emitted>>
  /\ UNCHANGED <<nextId, poolVars, callerVars, xformVars, buildVars, lastOp, toMain, thrown, posted>>
  /\ UNCHANGED <<callSt, callInst, callOrig, callVal, settledBy>>

\* ---------------------------------------------------------- executeInWorker
\* worker.postMessage(data): a terminated worker takes no message.
PostToWorker(w, msg) ==
  toWorker' = [toWorker EXCEPT ![w] = IF w \in terminated THEN @ ELSE Append(@, msg)]

\* The promise executor: originalOnMessage is saved, the one-shot handler is
\* installed, one execute message is posted. Calls are numbered in the order
\* in which they are made.
PromiseExecutor(k, w, fn) ==
  /\ callSt[k] = "none"
  /\ \A j \in 1..(k - 1) : callSt[j] # "none"
  /\ w \in 1..nextId
  /\ callSt' = [callSt EXCEPT ![k] = "pending"]
  /\ callInst' = [callInst EXCEPT ![k] = w]
  /\ callOrig' = [callOrig EXCEPT ![k] = onmessage[w]]
  /\ onmessage' = [onmessage EXCEPT ![w] = k]
  /\ PostToWorker(w, [type |-> "execute", function |-> fn, req |-> k])
  /\ UNCHANGED <<callVal, settledBy, cut, toMain, wpending, thrown, posted>>

ExecuteInWorker(k, w, fn) ==
  /\ PromiseExecutor(k, w, fn)
  /\ UNCHANGED <<instVars, poolVars, callerVars, sharedVars, xformVars, buildVars, lastOp, registry>>

\* the calls on instance w that have not settled
InFlight(w) == {k \in Calls : callSt[k] = "pending" /\ callInst[k] = w}

\* A caller that got an instance from the pool calls executeInWorker on it
\* and awaits the call.
PooledExecute(c, k, fn) ==
  /\ pc[c] = "holding"
  /\ PromiseExecutor(k, got[c], fn)
  /\ pc' = [pc EXCEPT ![c] = "calling"]
  /\ UNCHANGED <<got, holders>>
  /\ UNCHANGED <<instVars, poolVars, sharedVars, xformVars, buildVars, lastOp, registry>>

\* The awaited call has settled: the caller hands its instance back with
\* returnWorkerToPool.
PooledReturn(c) ==
  /\ pc[c] = "calling"
  /\ InFlight(got[c]) = {}
  /\ PutBack(got[c])
  /\ holders' = [holders EXCEPT ![got[c]] = IF IndexOf(busy, got[c]) # 0 THEN {} ELSE @]
  /\ pc' = [pc EXCEPT ![c] = "idle"]
  /\ got' = [got EXCEPT ![c] = NoInstance]
  /\ lastOp' = <<"return", 0, got[c]>>
  /\ UNCHANGED <<instVars, poolPc, poolSize, loopI, workers, maxSize, execVars, sharedVars, xformVars, buildVars>>

\* if (event.data.error) reject(new Error(event.data.error));
\* else resolve(event.data.result);   (a settled promise stays as it is)
Settle(k, msg) ==
  /\ callSt' = [callSt EXCEPT ![k] =
       IF @ # "pending" THEN @ ELSE IF Truthy(msg.error) THEN "rejected" ELSE "resolved"]
  /\ callVal' = [callVal EXCEPT ![k] =
       IF callSt[k] # "pending" THEN @ ELSE IF Truthy(msg.error) THEN msg.error ELSE msg.result]
  /\ settledBy' = [settledBy EXCEPT ![k] = IF callSt[k] # "pending" THEN @ ELSE msg.req]

\* (mutant of Deliver: the handler settles its promise without restoring
\* originalOnMessage)
DeliverNoRestore(w) ==
  /\ Len(toMain[w]) > 0
  /\ toMain' = [toMain EXCEPT ![w] = Tail(@)]
  /\ IF onmessage[w] = NoHandler
       THEN UNCHANGED <<onmessage, callSt, callVal, settledBy>>
       ELSE /\ UNCHANGED onmessage
            /\ Settle(onmessage[w], Head(toMain[w]))
  /\ UNCHANGED <<instVars, poolVars, callerVars, sharedVars, xformVars, buildVars, lastOp, registry>>
  /\ UNCHANGED <<callInst, callOrig, cut, toWorker, wpending, thrown, posted>>

\* A message event of instance w reaches the coordinator:
\* messageListeners.forEach((fn) => fn({ data })). The one-shot handler of
\* call k restores originalOnMessage and settles its promise.
Deliver(w) ==
  /\ Len(toMain[w]) > 0
  /\ toMain' = [toMain EXCEPT ![w] = Tail(@)]
  /\ IF onmessage[w] = NoHandler
       THEN UNCHANGED <<onmessage, callSt, callVal, settledBy>>
       ELSE /\ onmessage' = [onmessage EXCEPT ![w] = callOrig[onmessage[w]]]
            /\ Settle(onmessage[w], Head(toMain[w]))
  /\ UNCHANGED <<instVars, poolVars, callerVars, sharedVars, xformVars, buildVars, lastOp, registry>>
  /\ UNCHANGED <<callInst, callOrig, cut, toWorker, wpending, thrown, posted>>

\* ------------------------------------------- the worker: handleMessage
\* What the function run for a request may do.
Outcomes ==
  [kind : {"return", "resolve"}, val : Results]
    \cup [kind : {"throw", "reject"}, val : ErrTexts]

ResultMessage(v, k) == [type |-> "result", result |-> v, error |-> Undefined, req |-> k]

\* handleWorkerError(error): postMessage({type: "error", error: error.message})
ErrorMessage(m, k) == [type |-> "error", result |-> Undefined, error |-> m, req |-> k]

PostToMain(w, msg) ==
  /\ toMain' = [toMain EXCEPT ![w] = Append(@, msg)]
  /\ posted' = [posted EXCEPT ![msg.req] = @ + 1]

\* handleMessage for one execute request: the function is looked up and run;
\* a plain value or a synchronous throw is answered in the same step, a
\* promise is answered when it settles.
WorkerHandle(w, o) ==
  /\ w \notin terminated
  /\ Len(toWorker[w]) > 0
  /\ toWorker' = [toWorker EXCEPT ![w] = Tail(@)]
  /\ LET r == Head(toWorker[w]) IN
       IF r.type = NullData
         THEN /\ PostToMain(w, ErrorMessage(DestructureText, r.req))
              /\ UNCHANGED <<wpending, thrown>>
       ELSE IF r.type # "execute"
         THEN UNCHANGED <<toMain, posted, wpending, thrown>>
       ELSE IF r.function # "f"
         THEN /\ PostToMain(w, ErrorMessage(NotFoundText, r.req))
              /\ UNCHANGED <<wpending, thrown>>
         ELSE CASE o.kind = "return" ->
                     /\ PostToMain(w, ResultMessage(o.val, r.req))
                     /\ UNCHANGED <<wpending, thrown>>
                [] o.kind = "throw" ->
                     /\ PostToMain(w, ErrorMessage(o.val, r.req))
                     /\ thrown' = [thrown EXCEPT ![r.req] = o.val]
                     /\ UNCHANGED wpending
                [] OTHER ->
                     /\ wpending' = [wpending EXCEPT ![w] = @ \cup {[req |-> r.req, o |-> o]}]
                     /\ UNCHANGED <<toMain, posted, thrown>>
  /\ UNCHANGED <<instVars, poolVars, callerVars, sharedVars, xformVars, buildVars, lastOp, registry, onmessage, callVars>>

\* handle.postMessage(data) with data that is no execute request
HandlePostMessage(w, data) ==
  /\ w \in 1..nextId
  /\ posted[0] < MaxStray
  /\ \A i \in DOMAIN toWorker[w] : toWorker[w][i].type = "execute"
  /\ PostToWorker(w, [type |-> data, function |-> "", req |-> 0])
  /\ UNCHANGED <<instVars, poolVars, callerVars, sharedVars, xformVars, buildVars, lastOp, registry, onmessage, callVars>>
  /\ UNCHANGED <<toMain, wpending, thrown, posted>>

\* The promise of a running function settles: .then posts the result,
\* .catch calls handleWorkerError.
WorkerSettle(w, p) ==
  /\ w \notin terminated
  /\ p \in wpending[w]
  /\ wpending' = [wpending EXCEPT ![w] = @ \ {p}]
  /\ IF p.o.kind = "resolve"
       THEN /\ PostToMain(w, ResultMessage(p.o.val, p.req))
            /\ UNCHANGED thrown
       ELSE /\ PostToMain(w, ErrorMessage(p.o.val, p.req))
            /\ thrown' = [thrown EXCEPT ![p.req] = p.o.val]
  /\ UNCHANGED <<instVars, poolVars, callerVars, sharedVars, xformVars, buildVars, lastOp, registry, onmessage, callVars, toWorker>>

PendingPromises == [req : Calls, o : Outcomes]

\* ------------------------------------------------- calling a rewritten stub
\* JavaScript values passed to a stub: a number, an array, a one-character
\* string. Spreading a value in a call takes its elements if it is iterable
\* and throws a TypeError otherwise.
ArgValues == {"1", "[1,2]", "a"}
Iterable(v) == v \in {"[1,2]", "a"}
Elements(v) == IF v = "[1,2]" THEN <<"1", "2">> ELSE <<v>>
ArgLists == UNION {[1..n -> ArgValues] : n \in 0..MaxArgs}

\* the statement of the rewritten source that declares name
MainEntry(name) ==
  CHOOSE e \in Range(outcome.main.decls) : e.decl.name = name

\* Code of the rewritten module calls the stub of declaration i.
CallStub(i, args) ==
  /\ outcome.type = "result"
  /\ stubSt = "idle"
  /\ i \in DOMAIN outcome.main.decls
  /\ outcome.main.decls[i].stub
  /\ stubSt' = "running"
  /\ stubName' = outcome.main.decls[i].decl.name
  /\ stubArgs' = args
  /\ UNCHANGED <<source, outcome, written, stubDepth, dispatched>>
  /\ UNCHANGED <<instVars, poolVars, callerVars, execVars, lastOp, sharedVars, buildVars>>

\* One evaluation of the stub's body, await CALLEE(...args): the parameter
\* args is bound to the first argument (to the whole list if it were a rest
\* parameter), it is spread, and the callee is called with the elements. The
\* callee's name is resolved in the rewritten module, where the only
\* declaration of that name is the stub: the injected import binds no name.
StubStep ==
  /\ stubSt = "running"
  /\ stubDepth < MaxDepth
  /\ LET e == MainEntry(stubName)
         param == IF Len(stubArgs) >= 1 THEN stubArgs[1] ELSE Undefined
         spreads == e.rest \/ Iterable(param)
         elements == IF e.rest THEN stubArgs ELSE Elements(param)
     IN IF ~spreads
          THEN /\ stubSt' = "rejected"
               /\ UNCHANGED <<stubArgs, stubDepth, dispatched>>
          ELSE IF e.callee = e.decl.name
            THEN /\ stubArgs' = elements
                 /\ stubDepth' = stubDepth + 1
                 /\ UNCHANGED <<stubSt, dispatched>>
            ELSE /\ dispatched' = dispatched + 1
                 /\ stubSt' = "resolved"
                 /\ UNCHANGED <<stubArgs, stubDepth>>
  /\ UNCHANGED <<source, outcome, written, stubName>>
  /\ UNCHANGED <<instVars, poolVars, callerVars, execVars, lastOp, sharedVars, buildVars>>

\* ------------------------------------------------------------------- Next
NextPool ==
  \/ \E size \in 0..MaxPoolSize : CreateWorkerPoolCall(size)
  \/ CreateWorkerPoolStep
  \/ CreateWorkerPoolFail
  \/ CreateWorkerPoolReturn
  \/ \E c \in Callers : GetWorkerFromPool(c)
  \/ \E c \in Callers : CheckAvailable(c)
  \/ \E c \in Callers, w \in InstanceIds : ReturnWorkerToPool(c, w)

SpecPool == Init /\ [][NextPool]_vars

NextExec ==
  \/ CreateWorker
  \/ \E id \in RegIds, w \in InstanceIds : RegisterWorker(id, w)
  \/ \E id \in RegIds : UnregisterWorker(id)
  \/ \E w \in InstanceIds : Terminate(w)
  \/ TerminateAll
  \/ \E k \in Calls, w \in InstanceIds, fn \in FunctionNames : ExecuteInWorker(k, w, fn)
  \/ \E w \in InstanceIds : Deliver(w)
  \/ \E w \in InstanceIds, o \in Outcomes : WorkerHandle(w, o)
  \/ \E w \in InstanceIds, p \in PendingPromises : WorkerSettle(w, p)

SpecExec == Init /\ [][NextExec]_vars

NextShared ==
  \/ \E p \in Paths : CreateSharedWorker(p)
  \/ \E h \in Handles : SharedTerminate(h)
  \/ \E h \in Handles : PortEvent(h)
  \/ \E id \in RegIds, h \in Handles : RegisterShared(id, h)
  \/ \E id \in RegIds : UnregisterWorker(id)
  \/ TerminateAll

SpecShared == Init /\ [][NextShared]_vars

\* Shared handles made through two runtimes; terminateAll and the registry
\* are those of ThisRuntime, which registers handles of its own making.
NextRuntimes ==
  \/ \E r \in Runtimes, p \in Paths : CreateSharedWorkerBy(r, p)
  \/ \E h \in Handles : SharedTerminate(h)
  \/ \E h \in Handles : PortEvent(h)
  \/ \E id \in RegIds, h \in Handles : runtimeOf[h] = ThisRuntime /\ RegisterShared(id, h)
  \/ \E id \in RegIds : UnregisterWorker(id)
  \/ TerminateAll

SpecRuntimes == Init /\ [][NextRuntimes]_vars

\* The event loop delivers every pending port event.
SpecSharedFair == SpecShared /\ \A h \in Handles : WF_sharedVars(PortEvent(h))

\* Everything terminateAll can meet: plain instances, a pool, shared handles,
\* registered or not.
NextTeardown ==
  \/ CreateWorker
  \/ \E size \in 0..MaxPoolSize : CreateWorkerPoolCall(size)
  \/ CreateWorkerPoolStep
  \/ CreateWorkerPoolFail
  \/ CreateWorkerPoolReturn
  \/ \E p \in Paths : CreateSharedWorker(p)
  \/ \E h \in Handles : SharedTerminate(h)
  \/ \E h \in Handles : PortEvent(h)
  \/ \E id \in RegIds, w \in InstanceIds : RegisterWorker(id, w)
  \/ \E id \in RegIds : RegisterPool(id)
  \/ \E id \in RegIds, h \in Handles : RegisterShared(id, h)
  \/ \E id \in RegIds : UnregisterWorker(id)
  \/ TerminateAll

SpecTeardown == Init /\ [][NextTeardown]_vars

NextRelay ==
  \/ \E p \in Paths : CreateSharedWorker(p)
  \/ \E h \in Handles : SharedTerminate(h)
  \/ \E h \in Handles : SharedPostMessage(h)
  \/ \E g \in Handles : UnderlyingEmit(g)
  \/ \E h \in Handles : PortEvent(h)

SpecRelay == Init /\ [][NextRelay]_vars

\* ------------------------------------------------- calls on shared handles
\* The WorkerInstance objects of this part are the shared handles: onmessage[h]
\* is the onmessage field of handle h and callInst[k] the handle call k was
\* made on.
\* (mutant of Broadcast: what the underlying worker posts is handed to the
\* onmessage of every handle whose port is in the group)
BroadcastToHandles(g, msg) ==
  LET reached == {h \in ports[g] : portSt[h] = "open" /\ onmessage[h] # NoHandler}
      settled == {onmessage[h] : h \in reached}
  IN /\ port2Bcast' = port2Bcast
     /\ onmessage' = [h \in DOMAIN onmessage |->
                        IF h \in reached THEN callOrig[onmessage[h]] ELSE onmessage[h]]
     /\ callSt' = [k \in Calls |-> IF k \in settled /\ callSt[k] = "pending" THEN "resolved" ELSE callSt[k]]
     /\ callVal' = [k \in Calls |-> IF k \in settled /\ callSt[k] = "pending" THEN msg.result ELSE callVal[k]]
     /\ settledBy' = [k \in Calls |-> IF k \in settled /\ callSt[k] = "pending" THEN msg.req ELSE settledBy[k]]

\* worker.on("message", data => { for (const port of shared.ports)
\* port.postMessage(data) }): the ports of the set are the port1 ends, and a
\* message posted on port1 is queued for port2; no handler is called.
Broadcast(g, msg) ==
  /\ port2Bcast' = [h \in Handles |->
       IF h \in ports[g] /\ portSt[h] = "open" THEN port2Bcast[h] + 1 ELSE port2Bcast[h]]
  /\ UNCHANGED <<onmessage, callSt, callVal, settledBy>>

\* executeInWorker(handle, fn) by a caller that runs one call at a time on
\* its handle: the one-shot handler is installed and handle.postMessage
\* posts the execute message on port1.
SharedExecute(k, h, fn) ==
  /\ h \in 1..nextHandle
  /\ InFlight(h) = {}
  /\ callSt[k] = "none"
  /\ \A j \in 1..(k - 1) : callSt[j] # "none"
  /\ callSt' = [callSt EXCEPT ![k] = "pending"]
  /\ callInst' = [callInst EXCEPT ![k] = h]
  /\ callOrig' = [callOrig EXCEPT ![k] = onmessage[h]]
  /\ onmessage' = [onmessage EXCEPT ![h] = k]
  /\ port2Sent' = [port2Sent EXCEPT ![h] = IF portSt[h] = "open" THEN @ + 1 ELSE @]
  /\ UNCHANGED <<groupVars, portSt, port2Bcast, port1Queue, underInbox, relayed, emitted>>
  /\ UNCHANGED <<callVal, settledBy, cut, chanVars, registry>>
  /\ UNCHANGED <<instVars, poolVars, callerVars, lastOp, xformVars, buildVars>>

\* The underlying worker of group g posts the response to request k, once.
UnderlyingRespond(g, k) ==
  /\ g \in 1..nextHandle
  /\ sharedOf[g] = g
  /\ g \notin underTerminated
  /\ callSt[k] = "pending"
  /\ sharedOf[callInst[k]] = g
  /\ posted[k] = 0
  /\ posted' = [posted EXCEPT ![k] = 1]
  /\ emitted' = [emitted EXCEPT ![g] = @ + 1]
  /\ Broadcast(g, ResultMessage("42", k))
  /\ UNCHANGED <<groupVars, portSt, port2Sent, port1Queue, underInbox, relayed>>
  /\ UNCHANGED <<callInst, callOrig, cut, toWorker, toMain, wpending, thrown, registry>>
  /\ UNCHANGED <<instVars, poolVars, callerVars, lastOp, xformVars, buildVars>>

NextSharedCalls ==
  \/ \E p \in Paths : CreateSharedWorker(p)
  \/ \E h \in Handles : SharedTerminate(h)
  \/ \E h \in Handles : PortEvent(h)
  \/ \E k \in Calls, h \in Handles, fn \in FunctionNames : SharedExecute(k, h, fn)
  \/ \E g \in Handles, k \in Calls : UnderlyingRespond(g, k)

SpecSharedCalls == Init /\ [][NextSharedCalls]_vars

SpecRelayFair == SpecRelay /\ \A h \in Handles : WF_sharedVars(PortEvent(h))

\* The event loop runs every armed timer: a suspended call's checkAvailable
\* keeps being called every 10 ms.
SpecPoolFair == SpecPool /\ \A c \in Callers : WF_vars(CheckAvailable(c))

\* ------------------------------------------------------ transformer specs
\* transformFile applied to a source file without imports
InitTransform ==
  /\ InitRuntime
  /\ source \in ProgramsOf(<<>>, {{}}, MaxDecls)
  /\ outcome = NotRun
  /\ written = {}
  /\ InitStub
  /\ InitBuild

NextTransform == TransformFile

SpecTransform == InitTransform /\ [][NextTransform]_vars

\* transformFile applied to a source file that starts with
\* import d, { n } from "m", whose declarations mention d and n or not
InitImports ==
  /\ InitRuntime
  /\ source \in ProgramsOf(<<ImportDN>>, SUBSET BindingNames, MaxUserDecls)
  /\ outcome = NotRun
  /\ written = {}
  /\ InitStub
  /\ InitBuild

SpecImports == InitImports /\ [][NextTransform]_vars

\* the same for files of up to MaxStatements declarations
InitUsages ==
  /\ InitRuntime
  /\ source \in ProgramsOf(<<ImportDN>>, SUBSET BindingNames, MaxStatements)
  /\ outcome = NotRun
  /\ written = {}
  /\ InitStub
  /\ InitBuild

SpecUsages == InitUsages /\ [][NextTransform]_vars

\* transformFile applied to a file of at most one declaration, and calls of
\* the stub it leaves
InitStubCalls ==
  /\ InitRuntime
  /\ source \in ProgramsOf(<<>>, {{}}, 1)
  /\ outcome = NotRun
  /\ written = {}
  /\ InitStub
  /\ InitBuild

NextStub ==
  \/ TransformFile
  \/ \E i \in 1..MaxDecls, args \in ArgLists : CallStub(i, args)
  \/ StubStep

SpecStub == InitStubCalls /\ [][NextStub]_vars

\* ----------------------------------------------------------- parser spec
\* parseAnnotation, hasAnnotation and findThreadlyAnnotation applied, one
\* after the other, to a comment
InitParse ==
  /\ InitRuntime
  /\ source = EmptyProgram
  /\ outcome = NotRun
  /\ written = {}
  /\ InitStub
  /\ comment \in Comments
  /\ parserPc = "start"
  /\ parsed = Null
  /\ hasAnn = FALSE
  /\ found = Null
  /\ InitIds
  /\ InitOut

NextParse ==
  \/ ParseAnnotationCall
  \/ HasAnnotationCall
  \/ FindThreadlyAnnotationCall

SpecParse == InitParse /\ [][NextParse]_vars

\* ------------------------------------------------------------- id specs
\* generateWorkerId called twice on one (functionName, filePath) pair
IdInputs == [functionName : Texts(NameChars, MaxTextLen), filePath : Texts(PathChars, MaxTextLen)]

InitGenerate ==
  /\ InitRuntime
  /\ source = EmptyProgram
  /\ outcome = NotRun
  /\ written = {}
  /\ InitStub
  /\ InitParser
  /\ InitOut
  /\ \E a \in IdInputs : idArgs = <<a, a>>
  /\ ids = <<>>

NextGenerate == GenerateWorkerIdCall

SpecGenerate == InitGenerate /\ [][NextGenerate]_vars

\* generateWorkerId called on two pairs
InitGenerateTwo ==
  /\ InitRuntime
  /\ source = EmptyProgram
  /\ outcome = NotRun
  /\ written = {}
  /\ InitStub
  /\ InitParser
  /\ InitOut
  /\ idArgs \in [1..2 -> IdInputs]
  /\ ids = <<>>

SpecGenerateTwo == InitGenerateTwo /\ [][NextGenerate]_vars

\* transformFile applied to a file of at most one declaration, for the
\* source paths and output directories of FilePaths and OutputDirs
InitPaths ==
  /\ InitRuntime
  /\ source \in ProgramsOf(<<>>, {{}}, 1)
  /\ outcome = NotRun
  /\ written = {}
  /\ InitStub
  /\ InitParser
  /\ InitIds
  /\ filePath \in FilePaths
  /\ outputDir \in OutputDirs
  /\ files = {}

SpecPaths == InitPaths /\ [][NextTransform]_vars

\* transformFile applied to a file whose variable statements may declare
\* several names
InitStatements ==
  /\ InitRuntime
  /\ source \in StatementPrograms(MaxStatements)
  /\ outcome = NotRun
  /\ written = {}
  /\ InitStub
  /\ InitBuild

SpecStatements == InitStatements /\ [][NextTransform]_vars

\* --------------------------------------------------- pool teardown spec
\* A pool that is built, registered, used by callers and torn down by
\* terminateAll
NextPoolTeardown ==
  \/ \E size \in 1..MaxPoolSize : CreateWorkerPoolCall(size)
  \/ CreateWorkerPoolStep
  \/ CreateWorkerPoolReturn
  \/ \E id \in RegIds : RegisterPool(id)
  \/ TerminateAll
  \/ \E c \in Callers : GetWorkerFromPool(c)
  \/ \E c \in Callers : CheckAvailable(c)
  \/ \E c \in Callers, w \in InstanceIds : ReturnWorkerToPool(c, w)

SpecPoolTeardown == Init /\ [][NextPoolTeardown]_vars

\* ------------------------------------------------------------ worker spec
\* The message handler of a worker: execute requests of executeInWorker
\* calls and other messages posted through the handle
NextWorker ==
  \/ CreateWorker
  \/ \E k \in Calls, w \in InstanceIds, fn \in FunctionNames : ExecuteInWorker(k, w, fn)
  \/ \E w \in InstanceIds, data \in OtherData : HandlePostMessage(w, data)
  \/ \E w \in InstanceIds, o \in Outcomes : WorkerHandle(w, o)
  \/ \E w \in InstanceIds, p \in PendingPromises : WorkerSettle(w, p)

SpecWorker == Init /\ [][NextWorker]_vars

\* ------------------------------------------------------ serialized calls
\* A pool whose callers (as many as there are calls) get an instance, run one
\* call of f on it, await it and
\* return it: the calls on each instance are issued one after the other
NextSerial ==
  \/ \E size \in 1..MaxPoolSize : CreateWorkerPoolCall(size)
  \/ CreateWorkerPoolStep
  \/ CreateWorkerPoolReturn
  \/ \E c \in Calls : GetWorkerFromPool(c)
  \/ \E c \in Calls : CheckAvailable(c)
  \/ \E c \in Calls, k \in Calls : PooledExecute(c, k, "f")
  \/ \E c \in Calls : PooledReturn(c)
  \/ \E w \in InstanceIds : Deliver(w)
  \/ \E w \in InstanceIds, o \in Outcomes : WorkerHandle(w, o)
  \/ \E w \in InstanceIds, p \in PendingPromises : WorkerSettle(w, p)

SpecSerial == Init /\ [][NextSerial]_vars

\* =================================================================== claims

\* C1: in every reachable state of a pool built by createWorkerPool with
\* size S, whatever gets (immediate or suspended and resumed) and returns
\* were made, available.length + busy.length = S = workers.length.
C1_PoolSizeConserved ==
  poolPc = "ready" =>
    /\ Len(available) + Len(busy) = poolSize
    /\ Len(workers) = poolSize
    /\ maxSize = poolSize

C1_Witness ==
  /\ poolPc = "ready"
  /\ lastOp[1] = "resume"
  /\ Len(busy) > 0
  /\ Len(available) > 0

\* C2: an instance handed out by getWorkerFromPool is not handed out again
\* before it has been returned: at most one caller holds an instance that
\* was handed out and not returned since, and such an instance is in busy.
C2_NoDoubleHandOut ==
  \A w \in InstanceIds :
    /\ Cardinality(holders[w]) <= 1
    /\ holders[w] # {} => (w \in Range(busy) /\ w \notin Range(available))

C2_Witness ==
  /\ lastOp[1] = "resume"
  /\ \E c1, c2 \in Callers :
       /\ c1 # c2
       /\ got[c1] # NoInstance /\ got[c2] # NoInstance
       /\ holders[got[c1]] = {c1}
       /\ holders[got[c2]] = {c2}

\* C3: when one createWorker of createWorkerPool fails, no instance built
\* earlier in the same call is left alive (not terminated).
C3_NoLeakOnFailure ==
  poolPc = "failed" => \A i \in 1..Len(workers) : workers[i] \in terminated

\* C4: a suspended getWorkerFromPool completes only by taking an instance
\* out of a non-empty available list, and a call made on an empty list
\* suspends; when c is the only suspended caller and available holds
\* exactly the returned instance w, c eventually holds w, with w in busy,
\* unless another caller's get took w first.
C4_OnlyWaiter(c, w) ==
  /\ pc[c] = "waiting"
  /\ available = <<w>>
  /\ \A d \in Callers \ {c} : pc[d] # "waiting"

C4_Resumed(c, w) ==
  \/ pc[c] = "holding" /\ got[c] = w /\ w \in Range(busy)
  \/ \E d \in Callers \ {c} : lastOp = <<"get", d, w>>

C4_SuspendUntilReturn ==
  /\ [][\A c \in Callers :
          /\ (pc[c] = "waiting" /\ pc'[c] = "holding") => Len(available) > 0
          /\ (pc[c] = "idle" /\ lastOp'[2] = c /\ Len(available) = 0)
               => pc'[c] \in {"idle", "waiting"}]_vars
  /\ \A c \in Callers, w \in InstanceIds : C4_OnlyWaiter(c, w) ~> C4_Resumed(c, w)

C4_Witness ==
  \E c \in Callers, w \in InstanceIds :
    /\ lastOp = <<"resume", c, w>>
    /\ got[c] = w
    /\ busy = <<w>>
    /\ \A d \in Callers \ {c} : pc[d] = "idle"

\* C5: returnWorkerToPool with an instance that is not in busy (already
\* available, never a member, returned twice) leaves workers, available and
\* busy unchanged.
C5_ReturnNotBusyIsNoOp ==
  [][(lastOp'[1] = "return" /\ lastOp'[3] \notin Range(busy))
       => UNCHANGED <<workers, available, busy, maxSize>>]_vars

C5_Witness ==
  /\ lastOp[1] = "return"
  /\ lastOp[3] \notin Range(workers)
  /\ Len(busy) > 0
  /\ Len(available) > 0

\* C6: the pool createWorkerPool(path, size) returns holds exactly size
\* distinct instances, all of them in available, none in busy, and
\* maxSize = size.
C6_PoolAsCreated ==
  lastOp[1] = "poolReturn" =>
    /\ poolPc = "ready"
    /\ Len(workers) = poolSize
    /\ NoDup(workers)
    /\ available = workers
    /\ busy = <<>>
    /\ maxSize = poolSize

C6_Witness ==
  /\ lastOp[1] = "poolReturn"
  /\ poolSize >= 2
  /\ Len(available) = poolSize

\* C7: with available non-empty, getWorkerFromPool completes without
\* suspending and moves exactly the head of available to the end of busy,
\* returning it; every other instance keeps its list and position.
C7_GetTakesHead ==
  [][\A c \in Callers :
       (poolPc = "ready" /\ pc[c] = "idle" /\ Len(available) > 0
          /\ lastOp'[1] \in {"get", "getSuspend"} /\ lastOp'[2] = c)
       => /\ lastOp' = <<"get", c, Head(available)>>
          /\ pc'[c] = "holding"
          /\ got'[c] = Head(available)
          /\ available' = Tail(available)
          /\ busy' = Append(busy, Head(available))
          /\ workers' = workers]_vars

C7_Witness ==
  /\ lastOp[1] = "get"
  /\ Len(busy) >= 2
  /\ busy[Len(busy)] = lastOp[3]
  /\ got[lastOp[2]] = lastOp[3]

\* C8: executeInWorker posts exactly one execute message naming the
\* function, and the first message the instance delivers afterwards settles
\* the call: rejected with the message's error field as the Error's text
\* when the field is present, resolved with the result field otherwise.
C8_SettlesOnFirstMessage ==
  [][\A k \in Calls :
       /\ (callSt[k] = "none" /\ callSt'[k] = "pending" /\ callInst'[k] \notin terminated)
            => /\ Len(toWorker'[callInst'[k]]) = Len(toWorker[callInst'[k]]) + 1
               /\ toWorker'[callInst'[k]][Len(toWorker'[callInst'[k]])].type = "execute"
               /\ toWorker'[callInst'[k]][Len(toWorker'[callInst'[k]])].req = k
       /\ (callSt[k] = "pending" /\ onmessage[callInst[k]] = k
             /\ Len(toMain[callInst[k]]) > 0
             /\ toMain'[callInst[k]] = Tail(toMain[callInst[k]]))
            => LET m == Head(toMain[callInst[k]]) IN
                 IF m.error # Undefined
                   THEN callSt'[k] = "rejected" /\ callVal'[k] = m.error
                   ELSE callSt'[k] = "resolved" /\ callVal'[k] = m.result]_vars

\* C9: when the function run for a call's request throws, or its promise
\* rejects, with an Error of message text m, exactly one response
\* {type: "error", error: m} is posted for the request, and the call, once
\* that response has settled it, is rejected with an Error of text m.
C9_ThrowRejectsCall ==
  \A k \in Calls :
    thrown[k] # NotThrown =>
      /\ posted[k] = 1
      /\ \A i \in 1..Len(toMain[callInst[k]]) :
           toMain[callInst[k]][i].req = k
             => toMain[callInst[k]][i] = ErrorMessage(thrown[k], k)
      /\ (callSt[k] \in {"resolved", "rejected"} /\ settledBy[k] = k)
           => (callSt[k] = "rejected" /\ callVal[k] = thrown[k])

\* C10: an executeInWorker call that was in flight when its instance was
\* terminated (terminate() on the handle, or terminateAll) stays pending for
\* ever: it neither resolves nor rejects, whatever arrives afterwards.
C10_CutCallNeverSettles ==
  \A k \in Calls : cut[k] => callSt[k] = "pending"

\* the response to the call's request had been posted before the instance
\* was terminated and arrived after it
C10_Witness ==
  /\ cut[1]
  /\ callSt[1] = "pending"
  /\ posted[1] = 1
  /\ toMain[callInst[1]] = <<>>
  /\ \A k \in Calls \ {1} : callSt[k] = "none"

\* C11: when createSharedWorker is called for the path of the previous
\* createSharedWorker call, and the handle that call returned has not been
\* released, the new handle is a different port of the same group: both ports
\* are in the group's port set and the call builds no underlying worker.
C11_SecondRequestJoinsGroup ==
  [][\A p \in Paths :
       (/\ CreateSharedWorker(p)
        /\ nextHandle >= 1
        /\ pathOf[nextHandle] = p
        /\ portSt[nextHandle] = "open")
       => LET h1 == nextHandle
              h2 == nextHandle + 1
          IN /\ sharedOf'[h2] = sharedOf[h1]
             /\ sharedOf'[h2] # h2
             /\ {h1, h2} \subseteq ports'[sharedOf[h1]]
             /\ sharedOf[h1] \notin underTerminated']_vars

\* C12: a released handle's port eventually leaves its group; a group whose
\* ports have all been released eventually has its underlying worker
\* terminated and is no longer the entry of its path (unless a new handle
\* joined it first); and a createSharedWorker call never returns a handle of
\* a group whose underlying worker was terminated: it builds a new one.
C12_Released(g) ==
  /\ sharedOf[g] = g
  /\ ports[g] # {}
  /\ \A h \in ports[g] : portSt[h] # "open"

C12_TornDown(g) ==
  /\ sharedOf[g] = g
  /\ g \in underTerminated
  /\ sharedWorkers[pathOf[g]] # g

C13_RelayDelivers ==
  /\ \A h \in Handles :
       (portSt[h] = "open" /\ port2Sent[h] > 0)
         ~> (portSt[h] # "open" \/ underInbox[sharedOf[h]] > 0)
  /\ \A h \in Handles :
       (portSt[h] = "open" /\ port2Bcast[h] > 0)
         ~> (portSt[h] # "open" \/ relayed[h] > 0)

\* C14: when terminateAll has run, every instance the registry named and
\* every member of a registered pool is terminated, every registered shared
\* handle's port is closed, the registry is empty, sharedWorkers is empty,
\* the underlying worker of every group built so far is terminated and no
\* port of a shared handle is open.
C14_TerminateAllTearsDown ==
  [][TerminateAll
       => /\ Registered \subseteq terminated'
          /\ \A h \in RegisteredShared : portSt'[h] # "open"
          /\ \A id \in RegIds : registry'[id] = NoEntry
          /\ \A p \in Paths : sharedWorkers'[p] = NoGroup
          /\ \A g \in 1..nextHandle : sharedOf[g] = g => g \in underTerminated'
          /\ \A h \in 1..nextHandle : portSt'[h] # "open"]_vars

\* C15: when terminateAll has run, every instance built so far by
\* createWorker or by createWorkerPool is terminated, registered or not.
C15_TerminateAllReachesEveryWorker ==
  [][TerminateAll => \A w \in 1..nextId : w \in terminated']_vars

\* C16: after transform, a thrown error names a declaration that carries its
\* own annotation comment and is not async (no other declaration is checked
\* for asynchrony); a result holds exactly one WorkerConfig for every
\* declaration that carries its own annotation comment and none for any
\* other, and every declaration without annotation comment is in the
\* rewritten source as it was.
C16_ConfigsOf(name) ==
  {j \in DOMAIN outcome.configs : outcome.configs[j].functionName = name}

C16_OneConfigPerAnnotation ==
  /\ outcome.type = "error"
       => \E i \in DOMAIN source.decls :
            /\ source.decls[i].annotated
            /\ ~source.decls[i].async
            /\ source.decls[i].name = outcome.name
  /\ outcome.type = "result"
       => \A i \in DOMAIN source.decls :
            /\ Cardinality(C16_ConfigsOf(source.decls[i].name))
                 = (IF source.decls[i].annotated THEN 1 ELSE 0)
            /\ ~source.decls[i].annotated
                 => outcome.main.decls[i] = KeepNode(source.decls[i])

\* the local names the import statements of the rewritten source bind
MainBindings == UNION {Bindings(outcome.main.imports[j]) : j \in DOMAIN outcome.main.imports}

\* the declarations with an own annotation comment that mention b, and
\* whether code outside them mentions b
AnnotatedUsers(b) == {i \in DOMAIN source.decls : source.decls[i].annotated /\ b \in source.decls[i].uses}
MainUses(b) ==
  \/ b \in source.tail
  \/ \E i \in DOMAIN source.decls : ~source.decls[i].annotated /\ b \in source.decls[i].uses

\* C17: in a TransformResult, a binding that annotated declarations mention
\* and no other code mentions is bound by no import statement of the
\* rewritten source, and the WorkerConfig of every annotated declaration that
\* mentions it holds an import statement that binds it.
C17_WorkerOnlyImportMoves ==
  outcome.type = "result"
    => \A b \in ImportBindings(source) :
         (AnnotatedUsers(b) # {} /\ ~MainUses(b))
           => /\ b \notin MainBindings
              /\ \A i \in AnnotatedUsers(b) :
                   \E j \in DOMAIN outcome.configs :
                     /\ outcome.configs[j].functionName = source.decls[i].name
                     /\ \E st \in outcome.configs[j].imports : b \in Bindings(st)

\* C18: in a TransformResult, every binding that code outside the annotated
\* declarations mentions is still bound by an import statement of the rewritten
\* source; an import statement of the source is missing from the rewritten
\* source only if every name it binds is mentioned by annotated declarations
\* alone; and a statement binding a name mentioned both by annotated and by
\* other declarations is in the rewritten source as it was.
C18_MainImportsStay ==
  outcome.type = "result"
    => /\ \A b \in ImportBindings(source) : MainUses(b) => b \in MainBindings
       /\ \A j \in DOMAIN source.imports :
            (\A k \in DOMAIN outcome.main.imports :
               outcome.main.imports[k].module # source.imports[j].module)
              => \A b \in Bindings(source.imports[j]) :
                   AnnotatedUsers(b) # {} /\ ~MainUses(b)
       /\ \A j \in DOMAIN source.imports :
            (\E b \in Bindings(source.imports[j]) : AnnotatedUsers(b) # {} /\ MainUses(b))
              => source.imports[j] \in Range(outcome.main.imports)

\* a file whose default import d is mentioned by an annotated declaration
\* only and whose named import n is mentioned by other code was transformed,
\* and n is still imported
C18_Witness ==
  /\ outcome.type = "result"
  /\ AnnotatedUsers("d") # {}
  /\ ~MainUses("d")
  /\ MainUses("n")
  /\ "n" \in MainBindings

\* the declarations that carry their own annotation comment and are not async
C19_NotAsync == {i \in DOMAIN source.decls : source.decls[i].annotated /\ ~source.decls[i].async}

\* C19: when transformFile has run on a file in which a declaration with its
\* own annotation comment is not async, transform threw an error that names
\* the first such declaration and its 1-based line, it returned no
\* TransformResult, and no worker module was written.
C19_NotAsyncIsFatal ==
  (outcome.type # "none" /\ C19_NotAsync # {})
    => /\ outcome.type = "error"
       /\ outcome.configs = <<>>
       /\ written = {}
       /\ \E i \in C19_NotAsync :
            /\ \A k \in C19_NotAsync : i <= k
            /\ outcome.name = source.decls[i].name
            /\ outcome.line = LinesBefore(source, i) + 1 + 1

\* C20: every annotated declaration of a transformed file is replaced by an
\* async stub of the same name; a call of a stub never makes the stub call
\* itself, never fails while forwarding its arguments, and has completed only
\* after exactly one call was dispatched to the worker.
C20_StubForwardsToWorker ==
  /\ outcome.type = "result"
       => \A i \in DOMAIN source.decls :
            source.decls[i].annotated
              => /\ outcome.main.decls[i].stub
                 /\ outcome.main.decls[i].decl.name = source.decls[i].name
  /\ stubDepth = 0
  /\ stubSt # "rejected"
  /\ stubSt = "resolved" => dispatched = 1

\* the clauses of the comment, line breaks left out
Words(c) == SelectSeq(c.clauses, LAMBDA t : t # Newline)

\* the values N of its valid pool clauses
PoolSizesOf(c) == {ParseInt(Words(c)[i].size) : i \in PoolMatches(Words(c))}

\* the comment with its clauses in the opposite order
Reversed(c) == [c EXCEPT !.clauses = [i \in DOMAIN c.clauses |-> c.clauses[Len(c.clauses) + 1 - i]]]

\* C21: for every closed comment in which only whitespace stands between
\* the opener and the marker, parseAnnotation gives: with a valid pool
\* clause pool(size=N), type pool and poolSize N; with the shared token,
\* shared = true and, when there is no pool clause, type shared; with the
\* marker alone, type basic; a poolSize exactly when the type is pool; and,
\* for one pool clause and one shared token, the same result in both orders.
C21_Classification ==
  (parserPc \notin {"idle", "start"} /\ comment.marker /\ comment.closed
     /\ comment.lead \in {"/* ", "/*\n"}) =>
    /\ PoolSizesOf(comment) # {} =>
         parsed.type = "pool" /\ parsed.poolSize \in PoolSizesOf(comment)
    /\ IncludesShared(Words(comment)) =>
         parsed.shared /\ (PoolSizesOf(comment) = {} => parsed.type = "shared")
    /\ Words(comment) = <<>> => parsed = Annotation("basic", NoPoolSize, FALSE)
    /\ parsed.poolSize # NoPoolSize <=> parsed.type = "pool"
    /\ (Len(Words(comment)) = 2 /\ IncludesShared(Words(comment))
          /\ PoolSizesOf(comment) # {}) =>
         ParseAnnotation(Reversed(comment)) = parsed

\* C22: every annotation of type pool that parseAnnotation returns has a
\* poolSize of at least 1.
C22_PoolSizePositive ==
  (parserPc \notin {"idle", "start"} /\ parsed.type = "pool") => parsed.poolSize >= 1

\* a clause after the marker that is neither a valid pool clause nor the
\* shared token
Malformed(c) ==
  \E i \in DOMAIN Words(c) :
    Words(c)[i].word # "shared" /\ ~PoolMatch(Words(c)[i])

\* C23: for a closed comment that holds the marker right after its opener
\* and a malformed clause after it, parseAnnotation returns null and
\* findThreadlyAnnotation finds no annotation for the function below it.
C23_MalformedIsAbsent ==
  (parserPc = "found" /\ comment.marker /\ comment.closed
     /\ comment.lead \in {"/* ", "/*\n"} /\ Malformed(comment)) =>
    parsed = Null /\ found = Null

\* C24: parseAnnotation returns null for exactly the comments for which
\* hasAnnotation returns false.
C24_NullIffNoAnnotation ==
  parserPc \in {"tested", "found"} => (parsed = Null <=> ~hasAnn)

\* both calls were made on a comment that holds a pool clause and the shared
\* token but no marker
C24_Witness ==
  /\ parserPc = "tested"
  /\ ~comment.marker /\ comment.closed /\ comment.lead = "/* "
  /\ PoolSizesOf(comment) # {} /\ IncludesShared(Words(comment))
  /\ parsed = Null /\ ~hasAnn

\* C25: two calls of generateWorkerId on distinct (functionName, filePath)
\* pairs never return the same id.
C25_IdsAreUnique ==
  (Len(ids) = 2 /\ idArgs[1] # idArgs[2]) => ids[1] # ids[2]

\* C26: every id generateWorkerId returned is the filePath it was given with
\* each of "/", "." and "_" replaced by "_" and every other character kept,
\* then "_", then the functionName unchanged; and two calls on the same
\* pair returned the same id.
C26_IdIsPathThenName ==
  /\ \A i \in DOMAIN ids :
       LET p == idArgs[i].filePath
           n == idArgs[i].functionName
       IN /\ Len(ids[i]) = Len(p) + 1 + Len(n)
          /\ \A j \in DOMAIN p :
               ids[i][j] = (IF p[j] \in {"/", ".", "_"} THEN "_" ELSE p[j])
          /\ ids[i][Len(p) + 1] = "_"
          /\ SubSeq(ids[i], Len(p) + 2, Len(ids[i])) = n
  /\ (Len(ids) = 2 /\ idArgs[1] = idArgs[2]) => ids[1] = ids[2]

\* generateWorkerId("_f", "/.") was called twice and gave "___f" both times
C26_Witness ==
  /\ Len(ids) = 2
  /\ idArgs[1] = [functionName |-> <<"_", "f">>, filePath |-> <<"/", ".">>]
  /\ idArgs[2] = idArgs[1]
  /\ ids = <<(<<"_", "_", "_", "_", "f">>), (<<"_", "_", "_", "_", "f">>)>>

\* C29: after transformFile, the filePath of every WorkerConfig lies in the
\* output directory or below it and is named from the id of the config; a
\* worker module was written at that path; and the import injected for the
\* config into the rewritten source, resolved from the directory of the
\* source file, names that path.
C29_OnePathPerConfig ==
  outcome.type = "result" =>
    \A j \in DOMAIN outcome.configs :
      LET c == outcome.configs[j]
      IN /\ c.filePath.id = c.id
         /\ Len(c.filePath.dir) >= Len(outputDir)
         /\ SubSeq(c.filePath.dir, 1, Len(outputDir)) = outputDir
         /\ c.filePath \in files
         /\ c.filePath \in ResolveImport(outcome.main.workerImports[j], Dirname(filePath))

\* C27: on every instance, once each executeInWorker call made on it has had
\* its handler invoked, the onmessage handler is again the one that was
\* installed before the first call (none); and a message is never delivered
\* to a one-shot handler that was invoked before.
C27_HandlerRestored ==
  /\ [](\A w \in InstanceIds :
          (\A k \in Calls : callInst[k] = w => callSt[k] \in {"resolved", "rejected"})
            => onmessage[w] = NoHandler)
  /\ [][\A w \in InstanceIds :
          (Len(toMain[w]) > 0 /\ toMain'[w] = Tail(toMain[w]) /\ onmessage[w] # NoHandler)
            => callSt[onmessage[w]] = "pending"]_vars

\* two calls overlapped on one instance (the second saved the handler of the
\* first as its originalOnMessage), both handlers were invoked, and no
\* handler is left
C27_Witness ==
  /\ \A k \in {1, 2} : callSt[k] \in {"resolved", "rejected"}
  /\ callInst[1] = callInst[2]
  /\ callOrig[2] = 1
  /\ callInst[1] \notin terminated
  /\ onmessage[callInst[1]] = NoHandler

\* C28: an instance that terminateAll has terminated is in neither the
\* available nor the busy list of the pool, and no getWorkerFromPool call,
\* immediate or resumed, is handed a terminated instance.
C28_NoTerminatedSlot ==
  /\ [](\A w \in terminated : w \notin Range(available) /\ w \notin Range(busy))
  /\ [][\A c \in Callers :
          (pc[c] # "holding" /\ pc'[c] = "holding") => got'[c] \notin terminated']_vars

\* the request of call k was taken by the handler and its function is done
C30_Handled(k) ==
  /\ callSt[k] # "none"
  /\ callInst[k] \notin terminated
  /\ \A i \in DOMAIN toWorker[callInst[k]] : toWorker[callInst[k]][i].req # k
  /\ \A p \in wpending[callInst[k]] : p.req # k

\* C30: the worker never posts more than one response for an execute
\* request, and has posted one, of type result or error, once the request
\* was handled and its function is done; the response to a request naming a
\* function that is not defined is an error response; and no response is
\* posted for a message that is not an execute request.
C30_OneResponsePerRequest ==
  /\ [](/\ \A k \in Calls : posted[k] <= 1 /\ (C30_Handled(k) => posted[k] = 1)
        /\ \A w \in InstanceIds : \A i \in DOMAIN toMain[w] :
             toMain[w][i].type \in {"result", "error"}
        /\ posted[0] = 0)
  /\ [][\A w \in InstanceIds :
          (toWorker[w] # <<>> /\ toWorker'[w] = Tail(toWorker[w])
             /\ Head(toWorker[w]).type = "execute" /\ Head(toWorker[w]).function = "missing")
            => toMain'[w] = Append(toMain[w], ErrorMessage(NotFoundText, Head(toWorker[w]).req))]_vars

\* ------------------------------------------------------------------ C31
\* C31: the worker module written for an annotated declaration, function or
\* arrow, declares the name it exposes: the extracted source text holds the
\* declaration keyword, the name and the initializer.
C31_WorkerDeclaresExposed ==
  outcome.type = "result" =>
    \A j \in DOMAIN outcome.configs :
      GenerateWorkerCode(outcome.configs[j]).exposed
        \in DeclaredBy(GenerateWorkerCode(outcome.configs[j]).body)

\* ------------------------------------------------------------------ C32
\* the groups built so far: a group is named by the handle whose
\* construction built it
C32_Groups == {g \in 1..nextHandle : sharedOf[g] = g}

C32_Live(p) == {g \in C32_Groups : pathOf[g] = p /\ g \notin underTerminated}

\* C32: in every state reachable by createSharedWorker, handle release,
\* terminateAll and close events in any order, a path has at most one group
\* whose underlying worker is not terminated, and such a group with a port in
\* its port set is the entry of its path in sharedWorkers; a step removes an
\* entry of sharedWorkers only together with terminating the group it names.
C32_OneLiveGroupPerPath ==
  /\ [](\A p \in Paths :
         /\ Cardinality(C32_Live(p)) <= 1
         /\ \A g \in C32_Live(p) : ports[g] # {} => sharedWorkers[p] = g)
  /\ [][\A p \in Paths :
          (sharedWorkers[p] # NoGroup /\ sharedWorkers'[p] # sharedWorkers[p])
            => sharedWorkers[p] \in underTerminated']_vars

\* ------------------------------------------------------------------ C33
\* C33: terminateAll of one runtime terminates no shared group that was
\* built through another runtime, closes no port of a handle made through
\* another runtime, and removes no such group from sharedWorkers.
C33_TerminateAllStaysInRuntime ==
  [][TerminateAll =>
       /\ \A g \in C32_Groups :
            runtimeOf[g] # ThisRuntime =>
              /\ g \in underTerminated' => g \in underTerminated
              /\ sharedWorkers[pathOf[g]] = g => sharedWorkers'[pathOf[g]] = g
       /\ \A h \in 1..nextHandle :
            runtimeOf[h] # ThisRuntime => portSt'[h] = portSt[h]]_vars

\* ------------------------------------------------------------------ C34
\* C34: in every state reached by getWorkerFromPool and returnWorkerToPool
\* calls, whatever instance a return is given, available and busy share no
\* instance, neither holds an instance twice, both hold members of workers
\* only, and no step changes workers once createWorkerPool has returned.
C34_PoolListsWellFormed ==
  /\ [](poolPc = "ready" =>
          /\ Range(available) \cap Range(busy) = {}
          /\ NoDup(available)
          /\ NoDup(busy)
          /\ Range(available) \cup Range(busy) \subseteq Range(workers))
  /\ [][poolPc = "ready" => workers' = workers]_vars

C34_Witness ==
  /\ poolPc = "ready"
  /\ lastOp[1] = "return"
  /\ lastOp[3] \notin Range(workers)
  /\ \E c \in Callers : pc[c] = "waiting"
  /\ Len(busy) = Len(workers)
  /\ Len(workers) >= 2

\* ------------------------------------------------------------------ C35
C35_Waiting == {c \in Callers : pc[c] = "waiting"}

C35_Contended(w) == Cardinality(C35_Waiting) >= 2 /\ available = <<w>>

C36_SettledByOwnResponse ==
  /\ \A w \in InstanceIds : Cardinality(InFlight(w)) <= 1
  /\ \A k \in Calls :
       /\ posted[k] <= 1
       /\ callSt[k] \in {"resolved", "rejected"} => settledBy[k] = k /\ posted[k] = 1

C36_Witness ==
  /\ \A k \in {1, 2} : callSt[k] \in {"resolved", "rejected"} /\ settledBy[k] = k
  /\ callInst[1] = callInst[2]
  /\ callInst[1] \in Range(workers)
  /\ \E c \in Callers : lastOp = <<"resume", c, callInst[1]>>

C38_UsageFollowsOwnAnnotation ==
  outcome.type = "result" =>
    /\ \A b \in CollectImportUsages(source).worker :
         \E i \in DOMAIN source.decls :
           source.decls[i].annotated /\ b \in source.decls[i].uses
    /\ \A i \in DOMAIN source.decls :
         ~source.decls[i].annotated =>
           source.decls[i].uses \cap ImportBindings(source)
             \subseteq CollectImportUsages(source).nonWorker
    /\ source.tail \cap ImportBindings(source) \subseteq CollectImportUsages(source).nonWorker

\* ------------------------------------------------------------------ C39
\* C39: in a TransformResult, the node that stands for a variable statement
\* still declares every other name the statement declared next to its
\* annotated arrow function.
C39_OtherDeclaratorsStay ==
  outcome.type = "result" =>
    \A i \in DOMAIN source.decls :
      source.decls[i].others \subseteq DeclaredNames(outcome.main.decls[i])

====
